---- MODULE Spec2Model ----
(***************************************************************************)
(* Model of the json-beautify workspace (JsonWorkspace / JsonDiff): the    *)
(* greedy line aligner computeLineDiff, the statistics fold and the        *)
(* compare / swap / clear / sample / content-type handlers around it.      *)
(*                                                                         *)
(* The specifications of the module share its variables:                   *)
(*   SpecDiff  runs the loop of computeLineDiff one iteration per step on  *)
(*             every pair of line sequences of a bounded input set;        *)
(*   Spec      is the workspace component: its React state slots and one   *)
(*             action per event handler, the preset and view selectors     *)
(*             left at their initial values;                               *)
(*   SpecCompare is the compare view of the workspace in JSON mode with    *)
(*             the preset and view-mode selectors, on short inputs;        *)
(*   SpecBeautify is the beautify panel: the derived beautifiedResult of   *)
(*             every typed input under every preset.                       *)
(* Indices are 0-based as in the source; a JS array element a[i] is the    *)
(* TLA+ sequence element a[i + 1].                                         *)
(***************************************************************************)
EXTENDS Naturals, Sequences, FiniteSets, TLC

VARIABLES
    \* ---- computeLineDiff, one activation (SpecDiff)
    leftLines,      \* parameter leftLines
    rightLines,     \* parameter rightLines
    leftIdx,        \* let leftIdx
    rightIdx,       \* let rightIdx
    result,         \* const result: DiffLine[]
    pc,             \* "loop" while the while-loop runs, "done" after return
    iters,          \* number of loop iterations executed so far
    \* ---- JsonWorkspace, the useState slots (Spec)
    contentType,    \* 'json' | 'markdown'
    primaryInput,
    secondaryInput,
    beautifiedOutput,
    diffResult,     \* DiffLine[] | null: Arr(units) or Null
    leftParsed,
    rightParsed,
    semanticDiff,   \* Delta | undefined
    error,
    showSecondary,
    lastOp,         \* history: "compareDiff" when compareDiff ran last, else "other"
    \* ---- JsonWorkspace, the selectors, and the HTML formatter's behaviour
    selectedPreset,
    selectedMarkdownPreset,
    viewMode,       \* 'unified' | 'split' | 'annotated'
    formatHtmlThrows \* whether formatHtml of jsondiffpatch throws in this run

diffVars == <<leftLines, rightLines, leftIdx, rightIdx, result, pc, iters>>
wsVars == <<contentType, primaryInput, secondaryInput, beautifiedOutput,
            diffResult, leftParsed, rightParsed, semanticDiff, error,
            showSecondary, lastOp>>
uiVars == <<selectedPreset, selectedMarkdownPreset, viewMode, formatHtmlThrows>>
vars == <<diffVars, wsVars, uiVars>>

(***************************************************************************)
(* Bounds of the input set of SpecDiff.                                    *)
(***************************************************************************)
\* line texts of the short inputs
Lines == {"a", "b", "c", "x"}
\* line texts of the long inputs
FewLines == {"a", "b"}
\* longest sequence over Lines
MaxLen == 3
\* longest sequence over FewLines (longer than the lookahead window)
MaxLongLen == 6

SeqsUpTo(S, n) == UNION {[1..k -> S] : k \in 0..n}

Min(a, b) == IF a < b THEN a ELSE b

(***************************************************************************)
(* computeLineDiff                                                         *)
(***************************************************************************)
\* the exclusive upper offset of both lookahead loops: i < idx + 5
LookaheadEnd == 5

DiffLine(type, content, lineNumber) ==
    [type |-> type, content |-> content, lineNumber |-> lineNumber]

\* a lookahead that scans one line further: i < idx + 6
FoundAheadWindowFive(lines, idx, line) ==
    \E i \in (idx + 1)..(Min(idx + LookaheadEnd + 1, Len(lines)) - 1) :
        lines[i + 1] = line

\* for (let i = idx + 1; i < Math.min(idx + 5, lines.length); i++)
\*   if (lines[i] === line) { found = true; break }
FoundAhead(lines, idx, line) ==
    \E i \in (idx + 1)..(Min(idx + LookaheadEnd, Len(lines)) - 1) :
        lines[i + 1] = line

\* const leftLine = leftLines[leftIdx]; const rightLine = rightLines[rightIdx]
LineAt(lines, idx) == lines[idx + 1]

\* The loop state st is [leftIdx, rightIdx, result]; each Step* below is one
\* branch of the while body: its push(es) and its cursor increments.

\* if (leftIdx >= leftLines.length): push added(rightLine); rightIdx++
StepLeftExhaustedStuck(L, R, st) ==
    [st EXCEPT !.result = Append(@, DiffLine("added", LineAt(R, st.rightIdx),
                                             st.rightIdx + 1))]

StepLeftExhaustedJumpsToEnd(L, R, st) ==
    [st EXCEPT !.result = Append(@, DiffLine("added", LineAt(R, st.rightIdx),
                                             st.rightIdx + 1)),
               !.rightIdx = Len(R)]

StepLeftExhausted(L, R, st) ==
    [st EXCEPT !.result = Append(@, DiffLine("added", LineAt(R, st.rightIdx),
                                             st.rightIdx + 1)),
               !.rightIdx = @ + 1]

\* else if (rightIdx >= rightLines.length): push removed(leftLine); leftIdx++
StepRightExhausted(L, R, st) ==
    [st EXCEPT !.result = Append(@, DiffLine("removed", LineAt(L, st.leftIdx),
                                             st.leftIdx + 1)),
               !.leftIdx = @ + 1]

\* else if (leftLine === rightLine): push unchanged(leftLine); both ++
StepUnchangedLeftOnly(L, R, st) ==
    [st EXCEPT !.result = Append(@, DiffLine("unchanged", LineAt(L, st.leftIdx),
                                             st.leftIdx + 1)),
               !.leftIdx = @ + 1]

StepUnchangedRightNumber(L, R, st) ==
    [st EXCEPT !.result = Append(@, DiffLine("unchanged", LineAt(L, st.leftIdx),
                                             st.rightIdx + 1)),
               !.leftIdx = @ + 1,
               !.rightIdx = @ + 1]

StepUnchanged(L, R, st) ==
    [st EXCEPT !.result = Append(@, DiffLine("unchanged", LineAt(L, st.leftIdx),
                                             st.leftIdx + 1)),
               !.leftIdx = @ + 1,
               !.rightIdx = @ + 1]

\* if (!foundInRight && !foundInLeft): push modified-old(leftLine),
\* push modified-new(rightLine); both ++
StepModifiedNewFirst(L, R, st) ==
    [st EXCEPT !.result = @ \o
                   <<DiffLine("modified-new", LineAt(R, st.rightIdx),
                              st.rightIdx + 1),
                     DiffLine("modified-old", LineAt(L, st.leftIdx),
                              st.leftIdx + 1)>>,
               !.leftIdx = @ + 1,
               !.rightIdx = @ + 1]

StepModifiedAsRemoveAdd(L, R, st) ==
    [st EXCEPT !.result = @ \o
                   <<DiffLine("removed", LineAt(L, st.leftIdx),
                              st.leftIdx + 1),
                     DiffLine("added", LineAt(R, st.rightIdx),
                              st.rightIdx + 1)>>,
               !.leftIdx = @ + 1,
               !.rightIdx = @ + 1]

StepModifiedLeftOnly(L, R, st) ==
    [st EXCEPT !.result = @ \o
                   <<DiffLine("modified-old", LineAt(L, st.leftIdx),
                              st.leftIdx + 1),
                     DiffLine("modified-new", LineAt(R, st.rightIdx),
                              st.rightIdx + 1)>>,
               !.leftIdx = @ + 1]

StepModified(L, R, st) ==
    [st EXCEPT !.result = @ \o
                   <<DiffLine("modified-old", LineAt(L, st.leftIdx),
                              st.leftIdx + 1),
                     DiffLine("modified-new", LineAt(R, st.rightIdx),
                              st.rightIdx + 1)>>,
               !.leftIdx = @ + 1,
               !.rightIdx = @ + 1]

\* else if (foundInRight): push removed(leftLine); leftIdx++
StepRemovedWrongLine(L, R, st) ==
    [st EXCEPT !.result = Append(@, DiffLine("removed", LineAt(R, st.rightIdx),
                                             st.leftIdx + 1)),
               !.leftIdx = @ + 1]

StepRemoved(L, R, st) ==
    [st EXCEPT !.result = Append(@, DiffLine("removed", LineAt(L, st.leftIdx),
                                             st.leftIdx + 1)),
               !.leftIdx = @ + 1]

\* else: push added(rightLine); rightIdx++
StepAddedAdvancesBoth(L, R, st) ==
    [st EXCEPT !.result = Append(@, DiffLine("added", LineAt(R, st.rightIdx),
                                             st.rightIdx + 1)),
               !.leftIdx = @ + 1,
               !.rightIdx = @ + 1]

StepAdded(L, R, st) ==
    [st EXCEPT !.result = Append(@, DiffLine("added", LineAt(R, st.rightIdx),
                                             st.rightIdx + 1)),
               !.rightIdx = @ + 1]

\* the else branch with the tie broken the other way: added when the right
\* line reappears on the left
StepDifferPrefersAdded(L, R, st) ==
    LET foundInRight == FoundAhead(R, st.rightIdx, LineAt(L, st.leftIdx))
        foundInLeft == FoundAhead(L, st.leftIdx, LineAt(R, st.rightIdx))
    IN  IF ~foundInRight /\ ~foundInLeft THEN StepModified(L, R, st)
        ELSE IF foundInLeft THEN StepAdded(L, R, st)
        ELSE StepRemoved(L, R, st)

\* the else branch of the while body: the lines at the cursors differ
StepDiffer(L, R, st) ==
    LET foundInRight == FoundAhead(R, st.rightIdx, LineAt(L, st.leftIdx))
        foundInLeft == FoundAhead(L, st.leftIdx, LineAt(R, st.rightIdx))
    IN  IF ~foundInRight /\ ~foundInLeft THEN StepModified(L, R, st)
        ELSE IF foundInRight THEN StepRemoved(L, R, st)
        ELSE StepAdded(L, R, st)

\* One iteration of the while body; the caller has checked the loop condition.
DiffStepLookaheadFirst(L, R, st) ==
    IF st.leftIdx >= Len(L) THEN StepLeftExhausted(L, R, st)
    ELSE IF st.rightIdx >= Len(R) THEN StepRightExhausted(L, R, st)
    ELSE IF FoundAhead(R, st.rightIdx, LineAt(L, st.leftIdx))
         THEN StepRemoved(L, R, st)
    ELSE IF LineAt(L, st.leftIdx) = LineAt(R, st.rightIdx)
         THEN StepUnchanged(L, R, st)
    ELSE StepDiffer(L, R, st)

DiffStep(L, R, st) ==
    IF st.leftIdx >= Len(L) THEN StepLeftExhausted(L, R, st)
    ELSE IF st.rightIdx >= Len(R) THEN StepRightExhausted(L, R, st)
    ELSE IF LineAt(L, st.leftIdx) = LineAt(R, st.rightIdx)
         THEN StepUnchanged(L, R, st)
    ELSE StepDiffer(L, R, st)

\* while (leftIdx < leftLines.length || rightIdx < rightLines.length)
LoopCond(L, R, li, ri) == li < Len(L) \/ ri < Len(R)

RECURSIVE DiffLoop(_, _, _)
DiffLoop(L, R, st) ==
    IF LoopCond(L, R, st.leftIdx, st.rightIdx)
    THEN DiffLoop(L, R, DiffStep(L, R, st))
    ELSE st.result

\* the whole function: result after the loop has run to its exit
computeLineDiff(L, R) ==
    DiffLoop(L, R, [leftIdx |-> 0, rightIdx |-> 0, result |-> <<>>])

(***************************************************************************)
(* Text.  A text is a TLA+ string; its i-th character (1-based) is         *)
(* Char(s, i).                                                             *)
(***************************************************************************)
Char(s, i) == SubSeq(s, i, i)

\* the white space String.prototype.trim removes, as far as texts use it
WhiteSpace == {" ", "\t", "\n", "\r", "\f"}

\* text.trim(): the text between its first and its last character that is
\* not white space
Trim(s) ==
    IF \A i \in 1..Len(s) : Char(s, i) \in WhiteSpace THEN ""
    ELSE LET first == CHOOSE i \in 1..Len(s) :
                          /\ Char(s, i) \notin WhiteSpace
                          /\ \A j \in 1..(i - 1) : Char(s, j) \in WhiteSpace
             cut == CHOOSE k \in 0..(Len(s) - 1) :
                          /\ Char(s, Len(s) - k) \notin WhiteSpace
                          /\ \A j \in (Len(s) - k + 1)..Len(s) :
                                Char(s, j) \in WhiteSpace
         IN  SubSeq(s, first, Len(s) - cut)

\* text.split('\n'): the pieces between the newlines, at least one piece
SplitLines(s) ==
    LET nl == {i \in 1..Len(s) : Char(s, i) = "\n"}
        n == Cardinality(nl)
        \* the position of the k-th newline, 0 before the text, Len + 1 after
        at(k) == IF k = 0 THEN 0
                 ELSE IF k = n + 1 THEN Len(s) + 1
                 ELSE CHOOSE i \in nl : Cardinality({j \in nl : j < i}) = k - 1
    IN  [k \in 1..(n + 1) |-> SubSeq(s, at(k - 1) + 1, at(k) - 1)]

Digits == <<"0", "1", "2", "3", "4", "5", "6", "7", "8", "9">>
DigitChars == {Digits[i] : i \in 1..10}
DigitValue(c) == (CHOOSE i \in 1..10 : Digits[i] = c) - 1

\* String(n) for a natural number
RECURSIVE NatToStr(_)
NatToStr(n) ==
    IF n < 10 THEN Digits[n + 1]
    ELSE NatToStr(n \div 10) \o Digits[(n % 10) + 1]

(***************************************************************************)
(* JSON values.  null is Null; the others are [t, v] with t one of "bool", *)
(* "num", "str", "arr" (v a sequence of values) and "obj" (v the sequence  *)
(* of properties [k, v] in the object's own enumeration order).            *)
(* The modelled subset of JSON texts: objects, arrays, strings without     *)
(* escapes, natural numbers, true, false, null, and white space.           *)
(***************************************************************************)
Null == [t |-> "null"]
Undefined == [t |-> "undefined"]
Bool(b) == [t |-> "bool", v |-> b]
Num(n) == [t |-> "num", v |-> n]
Str(x) == [t |-> "str", v |-> x]
Arr(items) == [t |-> "arr", v |-> items]
Obj(props) == [t |-> "obj", v |-> props]
Prop(k, val) == [k |-> k, v |-> val]

\* !value
Falsy(val) ==
    \/ val \in {Null, Undefined}
    \/ val.t = "bool" /\ val.v = FALSE
    \/ val.t = "num" /\ val.v = 0
    \/ val.t = "str" /\ val.v = ""

\* a canonical array index ("0", "7", "10", not "01"): such keys enumerate
\* first, in ascending numeric order, whatever the insertion order
IsArrayIndex(k) ==
    /\ Len(k) > 0
    /\ \A i \in 1..Len(k) : Char(k, i) \in DigitChars
    /\ Len(k) > 1 => Char(k, 1) # "0"

RECURSIVE StrToNat(_)
StrToNat(k) ==
    IF Len(k) = 0 THEN 0
    ELSE StrToNat(SubSeq(k, 1, Len(k) - 1)) * 10 + DigitValue(Char(k, Len(k)))

\* obj[k] = val on the property list of an ordinary object
ObjSet(props, k, val) ==
    IF \E i \in DOMAIN props : props[i].k = k
    THEN [i \in DOMAIN props |->
            IF props[i].k = k THEN Prop(k, val) ELSE props[i]]
    ELSE IF IsArrayIndex(k)
    THEN LET before == SelectSeq(props, LAMBDA q :
                           IsArrayIndex(q.k) /\ StrToNat(q.k) < StrToNat(k))
             after == SelectSeq(props, LAMBDA q :
                           ~(IsArrayIndex(q.k) /\ StrToNat(q.k) < StrToNat(k)))
         IN  before \o <<Prop(k, val)>> \o after
    ELSE Append(props, Prop(k, val))

(***************************************************************************)
(* JSON.parse on the modelled subset.  The parse operators return          *)
(* [ok |-> TRUE, value, pos] (pos: the position after the value) or        *)
(* [ok |-> FALSE, pos] (pos: the position of the offending character,      *)
(* Len(s) + 1 at the end of the input).                                    *)
(***************************************************************************)
JsonWhiteSpace == {" ", "\t", "\n", "\r"}

Parsed(val, pos) == [ok |-> TRUE, value |-> val, pos |-> pos]
ParseFail(pos) == [ok |-> FALSE, pos |-> pos]

\* the first position at or after i that holds no JSON white space
SkipWs(s, i) ==
    IF \A j \in i..Len(s) : Char(s, j) \in JsonWhiteSpace THEN Len(s) + 1
    ELSE CHOOSE j \in i..Len(s) :
             /\ Char(s, j) \notin JsonWhiteSpace
             /\ \A m \in i..(j - 1) : Char(s, m) \in JsonWhiteSpace

\* the literal lit at position i, or the first position that departs from it
RECURSIVE ParseLiteral(_, _, _, _, _)
ParseLiteral(s, i, lit, j, val) ==
    IF j > Len(lit) THEN Parsed(val, i)
    ELSE IF i <= Len(s) /\ Char(s, i) = Char(lit, j)
         THEN ParseLiteral(s, i + 1, lit, j + 1, val)
    ELSE ParseFail(i)

\* the characters of a string up to its closing quote; i is past the
\* opening quote
StringStop == {"\"", "\\", "\n", "\t", "\r", "\f"}

ParseString(s, i) ==
    IF \A j \in i..Len(s) : Char(s, j) \notin StringStop THEN ParseFail(Len(s) + 1)
    ELSE LET e == CHOOSE j \in i..Len(s) :
                      /\ Char(s, j) \in StringStop
                      /\ \A m \in i..(j - 1) : Char(s, m) \notin StringStop
         IN  IF Char(s, e) = "\"" THEN Parsed(SubSeq(s, i, e - 1), e + 1)
             ELSE ParseFail(e)

\* the end of the digit run starting at i
DigitsEnd(s, i) ==
    IF \A j \in i..Len(s) : Char(s, j) \in DigitChars THEN Len(s) + 1
    ELSE CHOOSE j \in i..Len(s) :
             /\ Char(s, j) \notin DigitChars
             /\ \A m \in i..(j - 1) : Char(s, m) \in DigitChars

\* a natural number: 0, or a digit run that does not start with 0
ParseNumber(s, i) ==
    LET e == IF Char(s, i) = "0" THEN i + 1 ELSE DigitsEnd(s, i)
    IN  Parsed(Num(StrToNat(SubSeq(s, i, e - 1))), e)

RECURSIVE ParseValue(_, _)
RECURSIVE ParseValueAt(_, _, _)
RECURSIVE ParseMembers(_, _, _)
RECURSIVE MemberKey(_, _, _)
RECURSIVE MemberColon(_, _, _)
RECURSIVE MemberValue(_, _, _, _)
RECURSIVE MemberEnd(_, _, _, _)
RECURSIVE MemberNext(_, _, _)
RECURSIVE ParseElements(_, _, _)
RECURSIVE ElementEnd(_, _, _)
RECURSIVE ElementNext(_, _, _)

\* after a member: "," and the next member, or the closing brace
MemberNext(s, e, props) ==
    IF e > Len(s) THEN ParseFail(e)
    ELSE IF Char(s, e) = "," THEN ParseMembers(s, e + 1, props)
    ELSE IF Char(s, e) = "}" THEN Parsed(Obj(props), e + 1)
    ELSE ParseFail(e)

\* the member's value has been read: set the property
MemberEnd(s, key, val, props) ==
    IF ~val.ok THEN val
    ELSE MemberNext(s, SkipWs(s, val.pos), ObjSet(props, key.value, val.value))

\* the colon at c, then the member's value
MemberValue(s, key, c, props) ==
    IF c > Len(s) \/ Char(s, c) # ":" THEN ParseFail(c)
    ELSE MemberEnd(s, key, ParseValue(s, c + 1), props)

\* the member's key has been read
MemberColon(s, key, props) ==
    IF ~key.ok THEN key ELSE MemberValue(s, key, SkipWs(s, key.pos), props)

\* the opening quote of the member's key at i
MemberKey(s, i, props) ==
    IF i > Len(s) \/ Char(s, i) # "\"" THEN ParseFail(i)
    ELSE MemberColon(s, ParseString(s, i + 1), props)

\* "key" : value [, ...] }   with i0 at the first member
ParseMembers(s, i0, props) == MemberKey(s, SkipWs(s, i0), props)

\* after an element: "," and the next element, or the closing bracket
ElementNext(s, e, items) ==
    IF e > Len(s) THEN ParseFail(e)
    ELSE IF Char(s, e) = "," THEN ParseElements(s, e + 1, items)
    ELSE IF Char(s, e) = "]" THEN Parsed(Arr(items), e + 1)
    ELSE ParseFail(e)

\* the element has been read: append it
ElementEnd(s, val, items) ==
    IF ~val.ok THEN val
    ELSE ElementNext(s, SkipWs(s, val.pos), Append(items, val.value))

\* value [, ...] ]   with i at the first element
ParseElements(s, i, items) == ElementEnd(s, ParseValue(s, i), items)

\* the members of an object whose opening brace precedes j, "}" for none
ParseObject(s, j) ==
    IF j <= Len(s) /\ Char(s, j) = "}" THEN Parsed(Obj(<<>>), j + 1)
    ELSE ParseMembers(s, j, <<>>)

\* the elements of an array whose opening bracket precedes j, "]" for none
ParseArray(s, j) ==
    IF j <= Len(s) /\ Char(s, j) = "]" THEN Parsed(Arr(<<>>), j + 1)
    ELSE ParseElements(s, j, <<>>)

\* a string value from the result of ParseString
StringValue(str) == IF str.ok THEN Parsed(Str(str.value), str.pos) ELSE str

\* the value that starts with the character c at position i
ParseValueAt(s, i, c) ==
    IF i > Len(s) THEN ParseFail(i)
    ELSE IF c = "{" THEN ParseObject(s, SkipWs(s, i + 1))
    ELSE IF c = "[" THEN ParseArray(s, SkipWs(s, i + 1))
    ELSE IF c = "\"" THEN StringValue(ParseString(s, i + 1))
    ELSE IF c \in DigitChars THEN ParseNumber(s, i)
    ELSE IF c = "t" THEN ParseLiteral(s, i, "true", 1, Bool(TRUE))
    ELSE IF c = "f" THEN ParseLiteral(s, i, "false", 1, Bool(FALSE))
    ELSE IF c = "n" THEN ParseLiteral(s, i, "null", 1, Null)
    ELSE ParseFail(i)

ParseValueFrom(s, i) == ParseValueAt(s, i, Char(s, i))

ParseValue(s, i0) == ParseValueFrom(s, SkipWs(s, i0))

\* the SyntaxError message of the parser for the offending position
SyntaxErrorMessage(s, pos) ==
    IF pos > Len(s) THEN "Unexpected end of JSON input"
    ELSE "Unexpected token " \o Char(s, pos) \o " in JSON at position "
             \o NatToStr(pos - 1)

\* the text must end after the value, white space aside
ParseEnd(s, val, e) ==
    IF e <= Len(s) THEN [ok |-> FALSE, message |-> SyntaxErrorMessage(s, e)]
    ELSE [ok |-> TRUE, value |-> val]

ParseResult(s, r) ==
    IF ~r.ok THEN [ok |-> FALSE, message |-> SyntaxErrorMessage(s, r.pos)]
    ELSE ParseEnd(s, r.value, SkipWs(s, r.pos))

\* JSON.parse(text): [ok |-> TRUE, value] or, for the thrown SyntaxError,
\* [ok |-> FALSE, message]
JSONParse(s) == ParseResult(s, ParseValue(s, 1))

(***************************************************************************)
(* JSON.stringify(value, null, indent) and formatJson                      *)
(***************************************************************************)
Quote(x) == "\"" \o x \o "\""

RECURSIVE Spaces(_)
Spaces(n) == IF n = 0 THEN "" ELSE " " \o Spaces(n - 1)

\* join(parts, sep)
RECURSIVE Join(_, _)
Join(parts, sep) ==
    IF Len(parts) = 0 THEN ""
    ELSE IF Len(parts) = 1 THEN parts[1]
    ELSE parts[1] \o sep \o Join(Tail(parts), sep)

\* the serialization of val at indentation cur with indent unit gap
RECURSIVE Serialize(_, _, _)
Serialize(val, gap, cur) ==
    IF val = Null THEN "null"
    ELSE IF val.t = "bool" THEN (IF val.v THEN "true" ELSE "false")
    ELSE IF val.t = "num" THEN NatToStr(val.v)
    ELSE IF val.t = "str" THEN Quote(val.v)
    ELSE LET ind == cur \o gap
             open == IF val.t = "arr" THEN "[" ELSE "{"
             close == IF val.t = "arr" THEN "]" ELSE "}"
             parts == [i \in 1..Len(val.v) |->
                         IF val.t = "arr" THEN Serialize(val.v[i], gap, ind)
                         ELSE Quote(val.v[i].k)
                                  \o (IF gap = "" THEN ":" ELSE ": ")
                                  \o Serialize(val.v[i].v, gap, ind)]
         IN  IF Len(val.v) = 0 THEN open \o close
             ELSE IF gap = "" THEN open \o Join(parts, ",") \o close
             ELSE open \o "\n" \o ind \o Join(parts, ",\n" \o ind)
                      \o "\n" \o cur \o close

\* An indent argument is [n |-> number] or [s |-> string], or NoIndent for
\* undefined; the gap is min(n, 10) spaces or the first 10 characters of s.
NoIndent == [none |-> TRUE]
IndentNumber(n) == [n |-> n]
IndentString(x) == [s |-> x]

Gap(indent) ==
    IF indent = NoIndent THEN ""
    ELSE IF "n" \in DOMAIN indent THEN Spaces(Min(indent.n, 10))
    ELSE SubSeq(indent.s, 1, Min(Len(indent.s), 10))

\* JSON.stringify(value, null, indent)
JSONStringify(val, indent) == Serialize(val, Gap(indent), "")

\* formatJson(value, indent = 2)
formatJson(val, indent) ==
    LET ind == IF indent = IndentNumber(0) THEN NoIndent ELSE indent
    IN  JSONStringify(val, ind)

DefaultIndent == IndentNumber(2)

(***************************************************************************)
(* stats: the single pass over diffResult                                  *)
(***************************************************************************)
\* for (const line of diffResult) { if added ... else if removed ... else if
\* modified-old ... }, on the accumulator acc = [added, removed, modified]
RECURSIVE StatsFold(_, _, _)
StatsFoldCountsBothHalves(lines, i, acc) ==
    IF i > Len(lines) THEN acc
    ELSE IF lines[i].type = "added"
         THEN StatsFold(lines, i + 1, [acc EXCEPT !.added = @ + 1])
    ELSE IF lines[i].type = "removed"
         THEN StatsFold(lines, i + 1, [acc EXCEPT !.removed = @ + 1])
    ELSE IF lines[i].type \in {"modified-old", "modified-new"}
         THEN StatsFold(lines, i + 1, [acc EXCEPT !.modified = @ + 1])
    ELSE StatsFold(lines, i + 1, acc)

StatsFold(lines, i, acc) ==
    IF i > Len(lines) THEN acc
    ELSE IF lines[i].type = "added"
         THEN StatsFold(lines, i + 1, [acc EXCEPT !.added = @ + 1])
    ELSE IF lines[i].type = "removed"
         THEN StatsFold(lines, i + 1, [acc EXCEPT !.removed = @ + 1])
    ELSE IF lines[i].type = "modified-old"
         THEN StatsFold(lines, i + 1, [acc EXCEPT !.modified = @ + 1])
    ELSE StatsFold(lines, i + 1, acc)

\* useMemo(() => { if (!diffResult) return {0, 0, 0}; ... }, [diffResult])
\* on the state slot diffResult: Null, or Arr(units) for a DiffLine[]
Stats(dr) ==
    IF dr = Null THEN [added |-> 0, removed |-> 0, modified |-> 0]
    ELSE StatsFold(dr.v, 1, [added |-> 0, removed |-> 0, modified |-> 0])

(***************************************************************************)
(* The semantic differ, as far as the workspace reads it: whether          *)
(* diffpatcher.diff(left, right) is undefined.                             *)
(***************************************************************************)
\* objectHash: (obj) => JSON.stringify(obj)
objectHash(val) == JSONStringify(val, NoIndent)

\* typeof val === 'object' (null and arrays included)
IsObjectType(val) == val = Null \/ val.t \in {"arr", "obj"}

\* array items match when they are === or are both objects of equal hash
ItemsMatch(a, b) ==
    \/ (~IsObjectType(a) /\ ~IsObjectType(b) /\ a = b)
    \/ (IsObjectType(a) /\ IsObjectType(b) /\ objectHash(a) = objectHash(b))

Keys(props) == {props[i].k : i \in DOMAIN props}
Get(props, k) == (CHOOSE i \in DOMAIN props : props[i].k = k)

\* no difference between two values: primitives are ===, arrays have the
\* same length and matching items, objects have the same keys with no
\* difference under any of them (whatever the key order)
RECURSIVE NoDifference(_, _)
NoDifference(a, b) ==
    IF a = Null \/ b = Null THEN a = b
    ELSE IF a.t # b.t THEN FALSE
    ELSE IF a.t = "arr"
         THEN /\ Len(a.v) = Len(b.v)
              /\ \A i \in 1..Len(a.v) : ItemsMatch(a.v[i], b.v[i])
    ELSE IF a.t = "obj"
         THEN /\ Keys(a.v) = Keys(b.v)
              /\ \A k \in Keys(a.v) :
                    NoDifference(a.v[Get(a.v, k)].v, b.v[Get(b.v, k)].v)
    ELSE a.v = b.v

\* diffpatcher.diff(left, right): undefined, or a delta of the two values
Delta(a, b) == [t |-> "delta", left |-> a, right |-> b]

Diff(a, b) == IF NoDifference(a, b) THEN Undefined ELSE Delta(a, b)

(***************************************************************************)
(* sortObjectKeys and the beautify presets                                 *)
(***************************************************************************)
\* The UTF-16 code units of the printable ASCII characters: 32..95 and
\* 97..126 (96, the grave accent, is not written here and is in no input).
AsciiLow == " !\"#$%&'()*+,-./0123456789:;<=>?@ABCDEFGHIJKLMNOPQRSTUVWXYZ[\\]^_"
AsciiHigh == "abcdefghijklmnopqrstuvwxyz{|}~"
IndexIn(str, c) == CHOOSE i \in 1..Len(str) : Char(str, i) = c
CodeUnit(c) ==
    IF \E i \in 1..Len(AsciiLow) : Char(AsciiLow, i) = c
    THEN 31 + IndexIn(AsciiLow, c)
    ELSE 96 + IndexIn(AsciiHigh, c)

\* a < b for two strings: the comparison of Array.prototype.sort() without
\* a comparator, by code units, a proper prefix first
StrLess(a, b) ==
    \E i \in 1..Len(b) :
        /\ i <= Len(a) + 1
        /\ SubSeq(a, 1, i - 1) = SubSeq(b, 1, i - 1)
        /\ (i = Len(a) + 1 \/ CodeUnit(Char(a, i)) < CodeUnit(Char(b, i)))

\* keys.sort()
RECURSIVE SortStrings(_)
MinIndex(keys) ==
    CHOOSE i \in DOMAIN keys :
        \A j \in DOMAIN keys :
            /\ ~StrLess(keys[j], keys[i])
            /\ keys[j] = keys[i] => i <= j
Without(keys, i) == SubSeq(keys, 1, i - 1) \o SubSeq(keys, i + 1, Len(keys))
SortFrom(keys, i) == <<keys[i]>> \o SortStrings(Without(keys, i))
SortStrings(keys) == IF keys = <<>> THEN <<>> ELSE SortFrom(keys, MinIndex(keys))

\* Object.keys(obj), and obj[key]
ObjectKeys(props) == [i \in DOMAIN props |-> props[i].k]
PropValue(props, k) == props[CHOOSE i \in DOMAIN props : props[i].k = k].v

\* sortObjectKeys: the reduce assigns the keys in sorted order to a fresh
\* object, whose own enumeration order is that of ObjSet
\* sortObjectKeys with the keys taken in reverse order instead of sorted
RECURSIVE sortObjectKeysReversing(_)
RECURSIVE ReversedProps(_, _)
ReversedProps(props, sorted) ==
    IF props = <<>> THEN sorted
    ELSE ReversedProps(SubSeq(props, 1, Len(props) - 1),
                       ObjSet(sorted, props[Len(props)].k,
                              sortObjectKeysReversing(props[Len(props)].v)))

sortObjectKeysReversing(obj) ==
    IF obj.t \notin {"arr", "obj"} THEN obj
    ELSE IF obj.t = "arr"
         THEN Arr([i \in DOMAIN obj.v |-> sortObjectKeysReversing(obj.v[i])])
    ELSE Obj(ReversedProps(obj.v, <<>>))

RECURSIVE sortObjectKeys(_)
RECURSIVE SortedProps(_, _, _)
SortedProps(props, keys, sorted) ==
    IF keys = <<>> THEN sorted
    ELSE SortedProps(props, Tail(keys),
                     ObjSet(sorted, Head(keys),
                            sortObjectKeys(PropValue(props, Head(keys)))))

sortObjectKeys(obj) ==
    IF obj.t \notin {"arr", "obj"} THEN obj
    ELSE IF obj.t = "arr"
         THEN Arr([i \in DOMAIN obj.v |-> sortObjectKeys(obj.v[i])])
    ELSE Obj(SortedProps(obj.v, SortStrings(ObjectKeys(obj.v)), <<>>))

\* const presets
PresetNames ==
    {"standard", "compact", "expanded", "tab", "sorted", "sortedExpanded"}
presets ==
    [name \in PresetNames |->
        CASE name = "standard" -> [indent |-> IndentNumber(2), sortKeys |-> FALSE]
          [] name = "compact" -> [indent |-> IndentNumber(0), sortKeys |-> FALSE]
          [] name = "expanded" -> [indent |-> IndentNumber(4), sortKeys |-> FALSE]
          [] name = "tab" -> [indent |-> IndentString("\t"), sortKeys |-> FALSE]
          [] name = "sorted" -> [indent |-> IndentNumber(2), sortKeys |-> TRUE]
          [] name = "sortedExpanded" -> [indent |-> IndentNumber(4), sortKeys |-> TRUE]]

\* type DiffViewMode
DiffViewModes == {"unified", "split", "annotated"}

(***************************************************************************)
(* formatMarkdown and the markdown presets                                 *)
(***************************************************************************)
\* const markdownPresets
MarkdownPresetNames == {"standard", "compact", "expanded"}
markdownPresets ==
    [name \in MarkdownPresetNames |->
        [normalizeHeadings |-> TRUE,
         normalizeListIndent |-> IF name = "expanded" THEN 4 ELSE 2,
         trimTrailingWhitespace |-> TRUE,
         ensureNewlineAtEnd |-> TRUE,
         normalizeBlankLines |-> name # "compact"]]

\* the number of leading characters of s that are in set
LeadingCount(s, set) ==
    CHOOSE n \in 0..Len(s) :
        /\ \A j \in 1..n : Char(s, j) \in set
        /\ n = Len(s) \/ Char(s, n + 1) \notin set

\* line.trimEnd()
TrimEnd(s) ==
    IF \A i \in 1..Len(s) : Char(s, i) \in WhiteSpace THEN ""
    ELSE SubSeq(s, 1, CHOOSE k \in 1..Len(s) :
                          /\ Char(s, k) \notin WhiteSpace
                          /\ \A j \in (k + 1)..Len(s) : Char(s, j) \in WhiteSpace)

\* the characters "." of a regular expression does not match
LineTerminators == {"\n", "\r"}

\* s from position i on matches (.*)$
MatchesRest(s, i) == \A j \in i..Len(s) : Char(s, j) \notin LineTerminators

\* line.match(/^(#{1,6})([^\s#].*)$/), n being the number of leading "#"
HeadingMatch(line, n) ==
    /\ n >= 1
    /\ n <= 6
    /\ Len(line) > n
    /\ Char(line, n + 1) \notin WhiteSpace
    /\ MatchesRest(line, n + 2)

\* `${headingMatch[1]} ${headingMatch[2].trim()}`, or the line as it is
NormalizeHeadingAt(line, n) ==
    IF HeadingMatch(line, n)
    THEN SubSeq(line, 1, n) \o " " \o Trim(SubSeq(line, n + 1, Len(line)))
    ELSE line

NormalizeHeading(line) == NormalizeHeadingAt(line, LeadingCount(line, {"#"}))

\* `${newIndent}${marker} ${text}` for a list item with lead leading white
\* space characters, a marker that ends at position m and gap white space
\* characters after it
ListItem(line, lead, m, gap, indentSize) ==
    Spaces((lead \div 2) * indentSize) \o SubSeq(line, lead + 1, m) \o " "
        \o SubSeq(line, m + gap + 1, Len(line))

\* the white space run after position m
GapAfter(line, m) == LeadingCount(SubSeq(line, m + 1, Len(line)), WhiteSpace)

\* line.match(/^(\s*)([-*+])(\s+)(.*)$/), lead being the leading white space
UnorderedMatch(line, lead) ==
    /\ Len(line) > lead
    /\ Char(line, lead + 1) \in {"-", "*", "+"}
    /\ GapAfter(line, lead + 1) >= 1
    /\ MatchesRest(line, lead + 1 + GapAfter(line, lead + 1) + 1)

\* line.match(/^(\s*)(\d+\.)(\s+)(.*)$/), digits being the length of the
\* digit run after the leading white space
OrderedMatch(line, lead, digits) ==
    /\ digits >= 1
    /\ Len(line) > lead + digits
    /\ Char(line, lead + digits + 1) = "."
    /\ GapAfter(line, lead + digits + 1) >= 1
    /\ MatchesRest(line, lead + digits + 1 + GapAfter(line, lead + digits + 1) + 1)

DigitRun(line, lead) == LeadingCount(SubSeq(line, lead + 1, Len(line)), DigitChars)

NormalizeListItemAt(line, lead, digits, indentSize) ==
    IF UnorderedMatch(line, lead)
    THEN ListItem(line, lead, lead + 1, GapAfter(line, lead + 1), indentSize)
    ELSE IF OrderedMatch(line, lead, digits)
    THEN ListItem(line, lead, lead + digits + 1,
                  GapAfter(line, lead + digits + 1), indentSize)
    ELSE line

NormalizeListFrom(line, lead, indentSize) ==
    NormalizeListItemAt(line, lead, DigitRun(line, lead), indentSize)

NormalizeListItem(line, indentSize) ==
    NormalizeListFrom(line, LeadingCount(line, WhiteSpace), indentSize)

\* the loop over the lines that pushes a blank line only when it is the
\* first of its run (consecutiveBlankLines <= 1)
KeptIndices(lines) ==
    {i \in DOMAIN lines :
        ~(Trim(lines[i]) = "" /\ i > 1 /\ Trim(lines[i - 1]) = "")}

NthOf(set, k) ==
    CHOOSE i \in set : Cardinality({j \in set : j < i}) = k - 1

PickLines(lines, kept) ==
    [k \in 1..Cardinality(kept) |-> lines[NthOf(kept, k)]]

NormalizeBlankLines(lines) == PickLines(lines, KeptIndices(lines))

\* the steps of formatMarkdown on the lines, each under its preset switch
TrimLines(lines, preset) ==
    IF preset.trimTrailingWhitespace
    THEN [i \in DOMAIN lines |-> TrimEnd(lines[i])]
    ELSE lines

HeadingLines(lines, preset) ==
    IF preset.normalizeHeadings
    THEN [i \in DOMAIN lines |-> NormalizeHeading(lines[i])]
    ELSE lines

ListLines(lines, preset) ==
    [i \in DOMAIN lines |->
        NormalizeListItem(lines[i], preset.normalizeListIndent)]

BlankLines(lines, preset) ==
    IF preset.normalizeBlankLines THEN NormalizeBlankLines(lines) ELSE lines

EndsWithNewline(s) == Len(s) > 0 /\ Char(s, Len(s)) = "\n"

EnsureNewline(formatted, preset) ==
    IF preset.ensureNewlineAtEnd /\ ~EndsWithNewline(formatted)
    THEN formatted \o "\n"
    ELSE formatted

\* formatMarkdown(content, preset)
formatMarkdown(content, preset) ==
    EnsureNewline(
        Join(BlankLines(ListLines(HeadingLines(TrimLines(SplitLines(content),
                                                         preset),
                                               preset),
                                  preset),
                        preset),
             "\n"),
        preset)

(***************************************************************************)
(* JsonWorkspace                                                           *)
(***************************************************************************)
ContentTypes == {"json", "markdown"}

\* The sample documents of loadSample.  A TLA+ string cannot hold the
\* backquote: the code fences of the markdown samples are written ~~~.

\* loadSample: const sampleLeftMd
sampleLeftMd ==
    "# Project Documentation\n\n## Overview\nThis is the original"
        \o " documentation.\n\n## Features\n- Feature one\n- Feature two"
        \o "\n  - Sub-feature A\n  - Sub-feature B\n\n## Installation\nR"
        \o "un the following command:\n~~~bash\nnpm install\n~~~\n\n## L"
        \o "icense\nMIT"

\* loadSample: const sampleRightMd
sampleRightMd ==
    "# Project Documentation\n\n## Overview\nThis is the updated "
        \o "documentation with changes.\n\n## Features\n- Feature one (i"
        \o "mproved)\n- Feature two\n  - Sub-feature A\n  - Sub-feature "
        \o "B\n  - Sub-feature C (new!)\n- Feature three (new)\n\n## Ins"
        \o "tallation\nRun the following command:\n~~~bash\nnpm install "
        \o "my-package\n~~~\n\n## Configuration\nAdd a config file to cu"
        \o "stomize behavior.\n\n## License\nMIT"

\* loadSample: const sampleMd
sampleMd ==
    "#My Poorly Formatted Markdown\n\n##Introduction\nThis markdo"
        \o "wn has   some    formatting issues.\n\n##Features\n-  Featur"
        \o "e one\n-Feature two\n   -   Sub-item with weird indentation"
        \o "\n   -Sub-item without space\n      - Deeply nested item\n\n"
        \o "##Code Example\n~~~javascript\nconst x = 1;\n~~~\n\n\n##Conc"
        \o "lusion\nThis needs beautification!   "

\* loadSample: JSON.stringify(sampleLeft)
sampleLeftJson ==
    "{\"name\":\"JSON Beautifier\",\"version\":\"1.0.0\",\"featur"
        \o "es\":[\"Format JSON\",\"Multiple presets\"],\"config\":{\"th"
        \o "eme\":\"light\",\"autoFormat\":false}}"

\* loadSample: JSON.stringify(sampleRight)
sampleRightJson ==
    "{\"name\":\"JSON Beautifier Pro\",\"version\":\"2.0.0\",\"fe"
        \o "atures\":[\"Format JSON\",\"Multiple presets\",\"Diff tool\""
        \o "],\"config\":{\"theme\":\"dark\",\"autoFormat\":true,\"newSe"
        \o "tting\":\"enabled\"}}"

\* loadSample: JSON.stringify(sample)
sampleJson ==
    "{\"name\":\"JSON Beautifier\",\"version\":\"1.0.0\",\"featur"
        \o "es\":[\"Format JSON\",\"Multiple presets\",\"Sort keys\",\"C"
        \o "opy to clipboard\"],\"config\":{\"theme\":\"light\",\"autoFo"
        \o "rmat\":false,\"settings\":{\"indentation\":2,\"sortKeys\":fa"
        \o "lse}},\"data\":[1,2,3,{\"nested\":true}]}"
\* The texts a user types or pastes into an editor: empty, white space
\* only, malformed JSON, a JSON scalar and two JSON objects that differ in
\* key order only; as markdown each is a document of one line.  The
\* documents of several lines are the samples.
TypedTexts ==
    { "", " \n", "{invalid", "0",
      "{\"a\":1,\"b\":2}", "{\"b\":2,\"a\":1}" }

\* !text.trim()
IsBlank(text) == Trim(text) = ""

\* currentMode (useMemo)
currentMode ==
    IF IsBlank(primaryInput) THEN "idle"
    ELSE IF ~IsBlank(secondaryInput) \/ showSecondary THEN "compare"
    ELSE "beautify"

\* const isCompareMode = currentMode === 'compare' || showSecondary
isCompareMode == currentMode = "compare" \/ showSecondary

\* the five slots compareDiff sets besides beautifiedOutput
Outcome(err, diff, left, right, delta) ==
    [error |-> err, diffResult |-> diff, leftParsed |-> left,
     rightParsed |-> right, semanticDiff |-> delta]

\* the slots after the resets at the top of compareDiff
Cleared == Outcome("", Null, Null, Null, Undefined)

\* `Invalid JSON: ${e instanceof Error ? e.message : 'Unknown error'}`
InvalidJson(message) == "Invalid JSON: " \o message

\* `Please enter ${...} in both panels to compare`
EmptyInputMessage(ct) ==
    "Please enter " \o (IF ct = "markdown" THEN "markdown" ELSE "JSON")
        \o " in both panels to compare"

\* compareDiff, markdown branch
CompareMarkdown(primary, secondary) ==
    [Cleared EXCEPT
        !.diffResult = Arr(computeLineDiff(SplitLines(primary),
                                           SplitLines(secondary))),
        !.leftParsed = Str(primary),
        !.rightParsed = Str(secondary)]

\* compareDiff, the try block: a SyntaxError of either JSON.parse leaves the
\* block before any setter has run
CompareJsonKeepsLeft(primary, secondary) ==
    LET left == JSONParse(primary)
        right == JSONParse(secondary)
    IN  IF ~left.ok THEN [Cleared EXCEPT !.error = InvalidJson(left.message)]
        ELSE IF ~right.ok
             THEN [Cleared EXCEPT !.error = InvalidJson(right.message),
                                  !.leftParsed = left.value]
        ELSE Outcome("",
                     Arr(computeLineDiff(
                         SplitLines(formatJson(left.value, DefaultIndent)),
                         SplitLines(formatJson(right.value, DefaultIndent)))),
                     left.value, right.value,
                     Diff(left.value, right.value))

\* compareDiff, the try block, serializing both sides as the selected
\* beautify preset would
CompareJsonWithPreset(primary, secondary) ==
    LET left == JSONParse(primary)
        right == JSONParse(secondary)
        preset == presets[selectedPreset]
    IN  IF ~left.ok THEN [Cleared EXCEPT !.error = InvalidJson(left.message)]
        ELSE IF ~right.ok
             THEN [Cleared EXCEPT !.error = InvalidJson(right.message)]
        ELSE Outcome("",
                     Arr(computeLineDiff(
                         SplitLines(formatJson(
                             IF preset.sortKeys THEN sortObjectKeys(left.value)
                             ELSE left.value, preset.indent)),
                         SplitLines(formatJson(
                             IF preset.sortKeys THEN sortObjectKeys(right.value)
                             ELSE right.value, preset.indent)))),
                     left.value, right.value,
                     Diff(left.value, right.value))

CompareJson(primary, secondary) ==
    LET left == JSONParse(primary)
        right == JSONParse(secondary)
    IN  IF ~left.ok THEN [Cleared EXCEPT !.error = InvalidJson(left.message)]
        ELSE IF ~right.ok
             THEN [Cleared EXCEPT !.error = InvalidJson(right.message)]
        ELSE Outcome("",
                     Arr(computeLineDiff(
                         SplitLines(formatJson(left.value, DefaultIndent)),
                         SplitLines(formatJson(right.value, DefaultIndent)))),
                     left.value, right.value,
                     Diff(left.value, right.value))

\* compareDiff: the slots it leaves
CompareOutcomeNoEmptyCheck(ct, primary, secondary) ==
    IF ct = "markdown" THEN CompareMarkdown(primary, secondary)
    ELSE CompareJson(primary, secondary)

CompareOutcome(ct, primary, secondary) ==
    IF IsBlank(primary) \/ IsBlank(secondary)
    THEN [Cleared EXCEPT !.error = EmptyInputMessage(ct)]
    ELSE IF ct = "markdown" THEN CompareMarkdown(primary, secondary)
    ELSE CompareJson(primary, secondary)

\* the JSON branch of beautifiedResult: the try block and its catch
BeautifyJson(parsed, preset) ==
    IF ~parsed.ok THEN [output |-> "", error |-> InvalidJson(parsed.message)]
    ELSE [output |-> formatJson(IF preset.sortKeys
                                THEN sortObjectKeys(parsed.value)
                                ELSE parsed.value,
                                preset.indent),
          error |-> ""]

\* beautifiedResult (useMemo)
beautifiedResult ==
    IF currentMode # "beautify" \/ IsBlank(primaryInput)
    THEN [output |-> "", error |-> ""]
    ELSE IF contentType = "markdown"
    THEN [output |-> formatMarkdown(primaryInput,
                                    markdownPresets[selectedMarkdownPreset]),
          error |-> ""]
    ELSE BeautifyJson(JSONParse(primaryInput), presets[selectedPreset])

\* const displayedError = beautifiedResult.error || error
displayedError ==
    IF beautifiedResult.error # "" THEN beautifiedResult.error ELSE error

WorkspaceInit ==
    /\ contentType = "json"
    /\ primaryInput = ""
    /\ secondaryInput = ""
    /\ beautifiedOutput = ""
    /\ diffResult = Null
    /\ leftParsed = Null
    /\ rightParsed = Null
    /\ semanticDiff = Undefined
    /\ error = ""
    /\ showSecondary = FALSE
    /\ lastOp = "other"

\* the selectors as constructed; formatHtml is taken not to throw where no
\* annotated view is modelled
SelectorsInit ==
    /\ selectedPreset = "standard"
    /\ selectedMarkdownPreset = "standard"
    /\ viewMode = "unified"

\* <CodeEditor value={primaryInput} onChange={setPrimaryInput} />
SetPrimaryInputFrom(texts) ==
    /\ \E text \in texts : primaryInput' = text
    /\ lastOp' = "other"
    /\ UNCHANGED <<contentType, secondaryInput, beautifiedOutput, diffResult,
                   leftParsed, rightParsed, semanticDiff, error, showSecondary>>
    /\ UNCHANGED diffVars
    /\ UNCHANGED uiVars

\* <CodeEditor value={secondaryInput} onChange={setSecondaryInput} />,
\* rendered in compare mode only
SetSecondaryInputFrom(texts) ==
    /\ isCompareMode
    /\ \E text \in texts : secondaryInput' = text
    /\ lastOp' = "other"
    /\ UNCHANGED <<contentType, primaryInput, beautifiedOutput, diffResult,
                   leftParsed, rightParsed, semanticDiff, error, showSecondary>>
    /\ UNCHANGED diffVars
    /\ UNCHANGED uiVars

\* the two editors over the texts of Spec
SetPrimaryInput == SetPrimaryInputFrom(TypedTexts)
SetSecondaryInput == SetSecondaryInputFrom(TypedTexts)

\* compareDiff, behind the Compare button of compare mode
CompareDiff ==
    /\ isCompareMode
    /\ LET out == CompareOutcome(contentType, primaryInput, secondaryInput)
       IN  /\ error' = out.error
           /\ diffResult' = out.diffResult
           /\ leftParsed' = out.leftParsed
           /\ rightParsed' = out.rightParsed
           /\ semanticDiff' = out.semanticDiff
    /\ beautifiedOutput' = ""
    /\ lastOp' = "compareDiff"
    /\ UNCHANGED <<contentType, primaryInput, secondaryInput, showSecondary>>
    /\ UNCHANGED diffVars
    /\ UNCHANGED uiVars

\* swapInputs, behind the swap button of compare mode
SwapInputs ==
    /\ isCompareMode
    /\ primaryInput' = secondaryInput
    /\ secondaryInput' = primaryInput
    /\ diffResult' = Null
    /\ semanticDiff' = Undefined
    /\ lastOp' = "other"
    /\ UNCHANGED <<contentType, beautifiedOutput, leftParsed, rightParsed,
                   error, showSecondary>>
    /\ UNCHANGED diffVars
    /\ UNCHANGED uiVars

\* clearAll
ClearAll ==
    /\ primaryInput' = ""
    /\ secondaryInput' = ""
    /\ error' = ""
    /\ beautifiedOutput' = ""
    /\ diffResult' = Null
    /\ leftParsed' = Null
    /\ rightParsed' = Null
    /\ semanticDiff' = Undefined
    /\ showSecondary' = FALSE
    /\ lastOp' = "other"
    /\ UNCHANGED contentType
    /\ UNCHANGED diffVars
    /\ UNCHANGED uiVars

\* clearSecondary, the "Remove comparison" button of the secondary panel
ClearSecondary ==
    /\ isCompareMode
    /\ secondaryInput' = ""
    /\ diffResult' = Null
    /\ semanticDiff' = Undefined
    /\ showSecondary' = FALSE
    /\ lastOp' = "other"
    /\ UNCHANGED <<contentType, primaryInput, beautifiedOutput, leftParsed,
                   rightParsed, error>>
    /\ UNCHANGED diffVars
    /\ UNCHANGED uiVars

\* loadSample
LoadSample ==
    /\ IF currentMode = "compare" \/ showSecondary
       THEN /\ primaryInput' =
                  IF contentType = "markdown" THEN sampleLeftMd ELSE sampleLeftJson
            /\ secondaryInput' =
                  IF contentType = "markdown" THEN sampleRightMd ELSE sampleRightJson
       ELSE /\ primaryInput' =
                  IF contentType = "markdown" THEN sampleMd ELSE sampleJson
            /\ UNCHANGED secondaryInput
    /\ error' = ""
    /\ diffResult' = Null
    /\ semanticDiff' = Undefined
    /\ lastOp' = "other"
    /\ UNCHANGED <<contentType, beautifiedOutput, leftParsed, rightParsed,
                   showSecondary>>
    /\ UNCHANGED diffVars
    /\ UNCHANGED uiVars

\* enableCompareMode, the Compare button of the beautify output panel
EnableCompareMode ==
    /\ ~isCompareMode
    /\ showSecondary' = TRUE
    /\ beautifiedOutput' = ""
    /\ lastOp' = "other"
    /\ UNCHANGED <<contentType, primaryInput, secondaryInput, diffResult,
                   leftParsed, rightParsed, semanticDiff, error>>
    /\ UNCHANGED diffVars
    /\ UNCHANGED uiVars

\* handleContentTypeChange without setSemanticDiff(undefined)
HandleContentTypeChangeKeepsDelta ==
    /\ \E value \in ContentTypes : contentType' = value
    /\ primaryInput' = ""
    /\ secondaryInput' = ""
    /\ error' = ""
    /\ beautifiedOutput' = ""
    /\ diffResult' = Null
    /\ showSecondary' = FALSE
    /\ lastOp' = "other"
    /\ UNCHANGED <<leftParsed, rightParsed, semanticDiff>>
    /\ UNCHANGED diffVars
    /\ UNCHANGED uiVars

\* handleContentTypeChange(value)
HandleContentTypeChange ==
    /\ \E value \in ContentTypes : contentType' = value
    /\ primaryInput' = ""
    /\ secondaryInput' = ""
    /\ error' = ""
    /\ beautifiedOutput' = ""
    /\ diffResult' = Null
    /\ semanticDiff' = Undefined
    /\ showSecondary' = FALSE
    /\ lastOp' = "other"
    /\ UNCHANGED <<leftParsed, rightParsed>>
    /\ UNCHANGED diffVars
    /\ UNCHANGED uiVars

\* <Select value={selectedPreset} onValueChange={setSelectedPreset}>,
\* rendered outside compare mode for JSON
SetSelectedPreset ==
    /\ ~isCompareMode
    /\ contentType = "json"
    /\ \E name \in PresetNames : selectedPreset' = name
    /\ lastOp' = "other"
    /\ UNCHANGED <<contentType, primaryInput, secondaryInput, beautifiedOutput,
                   diffResult, leftParsed, rightParsed, semanticDiff, error,
                   showSecondary>>
    /\ UNCHANGED <<selectedMarkdownPreset, viewMode, formatHtmlThrows>>
    /\ UNCHANGED diffVars

\* <Select value={selectedMarkdownPreset}
\*         onValueChange={setSelectedMarkdownPreset}>,
\* rendered outside compare mode for markdown
SetSelectedMarkdownPreset ==
    /\ ~isCompareMode
    /\ contentType = "markdown"
    /\ \E name \in MarkdownPresetNames : selectedMarkdownPreset' = name
    /\ lastOp' = "other"
    /\ UNCHANGED <<contentType, primaryInput, secondaryInput, beautifiedOutput,
                   diffResult, leftParsed, rightParsed, semanticDiff, error,
                   showSecondary>>
    /\ UNCHANGED <<selectedPreset, viewMode, formatHtmlThrows>>
    /\ UNCHANGED diffVars

\* <Select value={viewMode} onValueChange={setViewMode}>, rendered in compare
\* mode; the Annotated item is rendered for JSON only
SetViewMode ==
    /\ isCompareMode
    /\ \E v \in DiffViewModes :
          /\ v = "annotated" => contentType = "json"
          /\ viewMode' = v
    /\ lastOp' = "other"
    /\ UNCHANGED <<contentType, primaryInput, secondaryInput, beautifiedOutput,
                   diffResult, leftParsed, rightParsed, semanticDiff, error,
                   showSecondary>>
    /\ UNCHANGED <<selectedPreset, selectedMarkdownPreset, formatHtmlThrows>>
    /\ UNCHANGED diffVars

Init ==
    /\ WorkspaceInit
    /\ SelectorsInit
    /\ formatHtmlThrows = FALSE
    /\ leftLines = <<>>
    /\ rightLines = <<>>
    /\ leftIdx = 0
    /\ rightIdx = 0
    /\ result = <<>>
    /\ pc = "done"
    /\ iters = 0

Next ==
    \/ SetPrimaryInput
    \/ SetSecondaryInput
    \/ CompareDiff
    \/ SwapInputs
    \/ ClearAll
    \/ ClearSecondary
    \/ LoadSample
    \/ EnableCompareMode
    \/ HandleContentTypeChange

Spec == Init /\ [][Next]_vars

(***************************************************************************)
(* The diff card: renderAnnotatedHtml, renderDiffLine, renderSplitView and *)
(* the choice among them by viewMode                                       *)
(***************************************************************************)
\* formatHtml(delta, left) of jsondiffpatch, when it returns
\* hasChanges: for markdown some unit of diffResult is not unchanged, for
\* JSON there is a semantic delta
hasChanges ==
    IF contentType = "markdown"
    THEN /\ diffResult # Null
         /\ \E i \in DOMAIN diffResult.v : diffResult.v[i].type # "unchanged"
    ELSE semanticDiff # Undefined

Html(delta, left) == [t |-> "html", delta |-> delta, left |-> left]

\* renderAnnotatedHtml (useMemo): null, or the HTML of the delta
renderAnnotatedHtml ==
    IF Falsy(leftParsed) \/ Falsy(semanticDiff) THEN Null
    ELSE IF formatHtmlThrows THEN Null
    ELSE Html(semanticDiff, leftParsed)

\* renderDiffLine: the line number, the sign column and the colouring
renderDiffLine(line) ==
    [lineNumber |-> line.lineNumber,
     sign |-> IF line.type \in {"added", "modified-new"} THEN "+"
              ELSE IF line.type \in {"removed", "modified-old"} THEN "-"
              ELSE " ",
     colour |-> IF line.type \in {"added", "modified-new"} THEN "added"
                ELSE IF line.type \in {"removed", "modified-old"} THEN "removed"
                ELSE "muted",
     content |-> line.content]

\* diffResult.map((line, idx) => renderDiffLine(line, idx))
UnifiedView ==
    [view |-> "lines",
     rows |-> [i \in DOMAIN diffResult.v |-> renderDiffLine(diffResult.v[i])]]

\* one panel of the split view: a line is highlighted when some unit of
\* diffResult of one of the given types has the line's content
SplitRows(lines, types) ==
    [i \in DOMAIN lines |->
        [lineNumber |-> i,
         content |-> lines[i],
         highlighted |-> \E j \in DOMAIN diffResult.v :
                            /\ diffResult.v[j].type \in types
                            /\ diffResult.v[j].content = lines[i]]]

\* the lines of one side in the split view
SplitLinesOf(parsed) ==
    IF contentType = "markdown" THEN SplitLines(parsed.v)
    ELSE SplitLines(formatJson(parsed, DefaultIndent))

\* renderSplitView
renderSplitView ==
    IF Falsy(leftParsed) \/ Falsy(rightParsed) THEN Null
    ELSE [view |-> "split",
          original |-> SplitRows(SplitLinesOf(leftParsed),
                                 {"removed", "modified-old"}),
          modified |-> SplitRows(SplitLinesOf(rightParsed),
                                 {"added", "modified-new"})]

\* the content of the diff card without the final else branch
DiffCardNoFallback ==
    IF diffResult = Null \/ ~isCompareMode THEN Null
    ELSE IF viewMode = "unified" THEN UnifiedView
    ELSE IF viewMode = "split" THEN renderSplitView
    ELSE IF renderAnnotatedHtml # Null
         THEN [view |-> "annotated", html |-> renderAnnotatedHtml]
    ELSE Null

\* {diffResult && isCompareMode && ...}: the content of the diff card, Null
\* when the card (or its content) is not rendered
DiffCard ==
    IF diffResult = Null \/ ~isCompareMode THEN Null
    ELSE IF viewMode = "unified" THEN UnifiedView
    ELSE IF viewMode = "split" THEN renderSplitView
    ELSE IF renderAnnotatedHtml # Null
         THEN [view |-> "annotated", html |-> renderAnnotatedHtml]
    ELSE UnifiedView

(***************************************************************************)
(* SpecCompare: the compare view with the preset and view-mode selectors,  *)
(* on short texts; formatHtml throws or not for the whole run.             *)
(***************************************************************************)
ShortTexts ==
    { "", "0", "{\"a\":2,\"b\":[1]}", "{\"b\":[1],\"a\":2}" }

InitCompare ==
    /\ WorkspaceInit
    /\ SelectorsInit
    /\ formatHtmlThrows \in BOOLEAN
    /\ leftLines = <<>>
    /\ rightLines = <<>>
    /\ leftIdx = 0
    /\ rightIdx = 0
    /\ result = <<>>
    /\ pc = "done"
    /\ iters = 0

TypePrimary == SetPrimaryInputFrom(ShortTexts)
TypeSecondary == SetSecondaryInputFrom(ShortTexts)

NextCompare ==
    \/ TypePrimary
    \/ TypeSecondary
    \/ CompareDiff
    \/ SwapInputs
    \/ ClearSecondary
    \/ EnableCompareMode
    \/ SetSelectedPreset
    \/ SetViewMode

SpecCompare == InitCompare /\ [][NextCompare]_vars

(***************************************************************************)
(* SpecBeautify: the beautify panel.  JSON texts are typed whole from a    *)
(* generated set, markdown is typed one character at a time.               *)
(***************************************************************************)
\* the keys of the typed objects and the value typed under each
TypedKeys == {"a", "b", "10", "9"}
MaxKeys == 3
TypedValue(k) ==
    CASE k = "a" -> Num(1)
      [] k = "b" -> Str("x")
      [] k = "10" -> Null
      [] k = "9" -> Bool(TRUE)

\* the objects over at most MaxKeys distinct keys, in every written order
KeyOrders ==
    {ks \in SeqsUpTo(TypedKeys, MaxKeys) :
        \A i, j \in DOMAIN ks : i # j => ks[i] # ks[j]}
FlatObject(ks) == Obj([i \in DOMAIN ks |-> Prop(ks[i], TypedValue(ks[i]))])

\* each object alone, as an array element, and as a property value
SortValues ==
    {FlatObject(ks) : ks \in KeyOrders}
        \cup {Arr(<<Num(2), FlatObject(ks), Num(1)>>) : ks \in KeyOrders}
        \cup {Obj(<<Prop("n", FlatObject(ks)), Prop("a", Num(1))>>) :
                 ks \in KeyOrders}

SortTexts == {JSONStringify(v, NoIndent) : v \in SortValues} \cup {"{invalid"}

MarkdownChars == {"#", " ", "T", "-", "\n"}
MaxTextLen == 5

InitBeautify ==
    /\ WorkspaceInit
    /\ SelectorsInit
    /\ formatHtmlThrows = FALSE
    /\ leftLines = <<>>
    /\ rightLines = <<>>
    /\ leftIdx = 0
    /\ rightIdx = 0
    /\ result = <<>>
    /\ pc = "done"
    /\ iters = 0

\* a JSON text pasted into the primary editor
TypeJson ==
    /\ contentType = "json"
    /\ SetPrimaryInputFrom(SortTexts)

\* a character typed at the end of the markdown in the primary editor
TypeMarkdownChar ==
    /\ contentType = "markdown"
    /\ Len(primaryInput) < MaxTextLen
    /\ SetPrimaryInputFrom({primaryInput \o c : c \in MarkdownChars})

NextBeautify ==
    \/ TypeJson
    \/ TypeMarkdownChar
    \/ SetSelectedPreset
    \/ SetSelectedMarkdownPreset
    \/ HandleContentTypeChange
    \/ ClearAll

SpecBeautify == InitBeautify /\ [][NextBeautify]_vars

(***************************************************************************)
(* SpecDiff: computeLineDiff on every input pair, one iteration per step.  *)
(***************************************************************************)
DiffInputs ==
    (SeqsUpTo(Lines, MaxLen) \X SeqsUpTo(Lines, MaxLen))
        \cup (SeqsUpTo(FewLines, MaxLongLen) \X SeqsUpTo(FewLines, MaxLongLen))

InitDiff ==
    /\ \E p \in DiffInputs : leftLines = p[1] /\ rightLines = p[2]
    /\ leftIdx = 0
    /\ rightIdx = 0
    /\ result = <<>>
    /\ pc = "loop"
    /\ iters = 0
    /\ WorkspaceInit
    /\ SelectorsInit
    /\ formatHtmlThrows = FALSE

LoopIter ==
    /\ pc = "loop"
    /\ LoopCond(leftLines, rightLines, leftIdx, rightIdx)
    /\ LET st == DiffStep(leftLines, rightLines,
                          [leftIdx |-> leftIdx, rightIdx |-> rightIdx,
                           result |-> result])
       IN  /\ leftIdx' = st.leftIdx
           /\ rightIdx' = st.rightIdx
           /\ result' = st.result
    /\ iters' = iters + 1
    /\ UNCHANGED <<leftLines, rightLines, pc>>
    /\ UNCHANGED wsVars
    /\ UNCHANGED uiVars

LoopExit ==
    /\ pc = "loop"
    /\ ~LoopCond(leftLines, rightLines, leftIdx, rightIdx)
    /\ pc' = "done"
    /\ UNCHANGED <<leftLines, rightLines, leftIdx, rightIdx, result, iters>>
    /\ UNCHANGED wsVars
    /\ UNCHANGED uiVars

NextDiff == LoopIter \/ LoopExit

SpecDiff == InitDiff /\ [][NextDiff]_vars

(***************************************************************************)
(* Properties of computeLineDiff, checked under SpecDiff                   *)
(***************************************************************************)
LeftTypes == {"unchanged", "removed", "modified-old"}
RightTypes == {"unchanged", "added", "modified-new"}

Contents(units) == [i \in 1..Len(units) |-> units[i].content]
LeftSide(units) == Contents(SelectSeq(units, LAMBDA u : u.type \in LeftTypes))
RightSide(units) == Contents(SelectSeq(units, LAMBDA u : u.type \in RightTypes))
CountTypes(units, T) == Cardinality({i \in DOMAIN units : units[i].type \in T})
\* a unit without its line number: type(content)
Unit(type, content) == [type |-> type, content |-> content]
Shape(units) == [i \in 1..Len(units) |-> Unit(units[i].type, units[i].content)]
TypesIn(units) == {units[i].type : i \in DOMAIN units}

\* C1: the script covers every position of both inputs exactly once and in
\* order: the contents of its unchanged/removed/modified-old units are the
\* left lines consumed so far, those of its unchanged/added/modified-new
\* units the right lines consumed so far, and at return they are exactly
\* leftLines and rightLines.
C1_CoversBothInOrder ==
    /\ LeftSide(result) = SubSeq(leftLines, 1, leftIdx)
    /\ RightSide(result) = SubSeq(rightLines, 1, rightIdx)
    /\ pc = "done" =>
          /\ LeftSide(result) = leftLines
          /\ RightSide(result) = rightLines

C1_Witness ==
    /\ pc = "done"
    /\ leftLines # rightLines
    /\ {"unchanged", "added", "removed", "modified-old"} \subseteq TypesIn(result)

\* C2 as stated: at return, #removed + #modified-old = len(leftLines) and
\* #added + #modified-new = len(rightLines).
C2_TotalityAsStated ==
    pc = "done" =>
        /\ CountTypes(result, {"removed", "modified-old"}) = Len(leftLines)
        /\ CountTypes(result, {"added", "modified-new"}) = Len(rightLines)

\* C2 amended: at return, #unchanged + #removed + #modified-old =
\* len(leftLines) and #unchanged + #added + #modified-new = len(rightLines).
C2_TotalityWithUnchanged ==
    pc = "done" =>
        /\ CountTypes(result, LeftTypes) = Len(leftLines)
        /\ CountTypes(result, RightTypes) = Len(rightLines)

C2_Witness ==
    /\ pc = "done"
    /\ CountTypes(result, {"unchanged"}) >= 1
    /\ CountTypes(result, {"removed"}) >= 1
    /\ CountTypes(result, {"modified-old"}) >= 1
    /\ CountTypes(result, {"added"}) >= 1

\* C3: computeLineDiff(L, L) is one unchanged unit per line of L, in the
\* order of L, and nothing else.
C3_Identity ==
    (pc = "done" /\ leftLines = rightLines) =>
        Shape(result) = [i \in 1..Len(leftLines) |-> Unit("unchanged", leftLines[i])]

C3_Witness ==
    /\ pc = "done"
    /\ leftLines = rightLines
    /\ Len(leftLines) >= 3
    /\ \E i, j \in DOMAIN leftLines : i # j /\ leftLines[i] = leftLines[j]
    /\ \E i, j \in DOMAIN leftLines : leftLines[i] # leftLines[j]

\* C4: every modified-old unit is immediately followed by a modified-new
\* unit, every modified-new unit immediately preceded by a modified-old unit,
\* and the two counts are equal.
C4_ModifiedPairsAdjacent ==
    /\ \A i \in DOMAIN result :
          /\ result[i].type = "modified-old" =>
                i < Len(result) /\ result[i + 1].type = "modified-new"
          /\ result[i].type = "modified-new" =>
                i > 1 /\ result[i - 1].type = "modified-old"
    /\ CountTypes(result, {"modified-old"}) = CountTypes(result, {"modified-new"})

C4_Witness ==
    /\ pc = "done"
    /\ CountTypes(result, {"modified-old"}) >= 2
    /\ CountTypes(result, {"unchanged", "added", "removed"}) >= 1

\* C5: the loop terminates: every iteration advances a cursor by at least
\* one, no cursor passes the end of its sequence, the loop is never stuck,
\* it runs at most len(L) + len(R) iterations and exits with both cursors
\* exactly at the ends.
C5_CursorsBounded ==
    /\ leftIdx <= Len(leftLines)
    /\ rightIdx <= Len(rightLines)
    /\ iters <= Len(leftLines) + Len(rightLines)
    /\ pc = "loop" => ENABLED NextDiff
    /\ pc = "done" => leftIdx = Len(leftLines) /\ rightIdx = Len(rightLines)

C5_IterationAdvances ==
    LoopIter => /\ leftIdx' >= leftIdx
                /\ rightIdx' >= rightIdx
                /\ leftIdx' + rightIdx' > leftIdx + rightIdx

C5_Terminates == [](C5_CursorsBounded) /\ [][C5_IterationAdvances]_vars

C5_Witness ==
    /\ pc = "done"
    /\ iters = Len(leftLines) + Len(rightLines)
    /\ Len(leftLines) >= 2
    /\ Len(rightLines) >= 2

\* C6: when rightLines is leftLines with one extra line inserted, the script
\* is one added unit for the inserted line and unchanged units for every
\* other line, e.g. [a, c] -> [a, b, c] gives [unchanged(a), added(b),
\* unchanged(c)].
InsertedAt(L, R, k) ==
    /\ Len(R) = Len(L) + 1
    /\ k \in 1..Len(R)
    /\ R = SubSeq(L, 1, k - 1) \o <<R[k]>> \o SubSeq(L, k, Len(L))

InsertionScript(R, k) ==
    [i \in 1..Len(R) |-> Unit(IF i = k THEN "added" ELSE "unchanged", R[i])]

C6_PureInsertion ==
    (pc = "done" /\ \E k \in 1..Len(rightLines) : InsertedAt(leftLines, rightLines, k)) =>
        \E k \in 1..Len(rightLines) :
            /\ InsertedAt(leftLines, rightLines, k)
            /\ Shape(result) = InsertionScript(rightLines, k)

\* C7: when the inputs have the same length and differ at exactly one
\* position k whose two lines occur nowhere else, the script is unchanged
\* units for the other lines with modified-old(L[k]), modified-new(R[k]) at
\* position k, and the stats are {added: 0, removed: 0, modified: 1}.
ReplacedAt(L, R, k) ==
    /\ Len(L) = Len(R)
    /\ k \in 1..Len(L)
    /\ L[k] # R[k]
    /\ \A i \in 1..Len(L) : i # k =>
          /\ L[i] = R[i]
          /\ L[i] \notin {L[k], R[k]}

ReplacementScript(L, R, k) ==
    [i \in 1..(Len(L) + 1) |->
        IF i < k THEN Unit("unchanged", L[i])
        ELSE IF i = k THEN Unit("modified-old", L[k])
        ELSE IF i = k + 1 THEN Unit("modified-new", R[k])
        ELSE Unit("unchanged", L[i - 1])]

C7_SingleReplacement ==
    \A k \in 1..Len(leftLines) :
        (pc = "done" /\ ReplacedAt(leftLines, rightLines, k)) =>
            /\ Shape(result) = ReplacementScript(leftLines, rightLines, k)
            /\ Stats(Arr(result)) = [added |-> 0, removed |-> 0, modified |-> 1]

C7_Witness ==
    /\ pc = "done"
    /\ leftLines = <<"a", "b", "c">>
    /\ rightLines = <<"a", "x", "c">>
    /\ Shape(result) = <<Unit("unchanged", "a"), Unit("modified-old", "b"),
                         Unit("modified-new", "x"), Unit("unchanged", "c")>>

\* line occurs among the next 4 lines after the 0-based position idx
InNextFour(lines, idx, line) ==
    \E k \in 1..4 : idx + k < Len(lines) /\ lines[idx + k + 1] = line

\* C20: in an iteration with both cursors in range and different lines at
\* them, when the left line reappears within the next 4 right lines the
\* iteration appends exactly one unit, removed, with the left line and its
\* 1-based number, advances the left cursor by one and leaves the right
\* cursor; so also when the right line reappears within the next 4 left
\* lines.
C20_FoundInRightRemoves ==
    [][(/\ pc = "loop"
        /\ leftIdx < Len(leftLines)
        /\ rightIdx < Len(rightLines)
        /\ leftLines[leftIdx + 1] # rightLines[rightIdx + 1]
        /\ InNextFour(rightLines, rightIdx, leftLines[leftIdx + 1])) =>
            /\ result' = Append(result, [type |-> "removed",
                                         content |-> leftLines[leftIdx + 1],
                                         lineNumber |-> leftIdx + 1])
            /\ leftIdx' = leftIdx + 1
            /\ rightIdx' = rightIdx]_vars

\* after such an iteration in which the right line also reappeared within
\* the next 4 left lines
C20_Witness ==
    /\ pc = "loop"
    /\ leftIdx >= 1
    /\ rightIdx < Len(rightLines)
    /\ Len(result) >= 1
    /\ result[Len(result)] = [type |-> "removed",
                              content |-> leftLines[leftIdx],
                              lineNumber |-> leftIdx]
    /\ leftLines[leftIdx] # rightLines[rightIdx + 1]
    /\ InNextFour(rightLines, rightIdx, leftLines[leftIdx])
    /\ InNextFour(leftLines, leftIdx - 1, rightLines[rightIdx + 1])

\* C21: in an iteration with both cursors in range and different lines at
\* them, when the right line reappears within the next 4 left lines and the
\* left line does not reappear within the next 4 right lines, the iteration
\* appends exactly one unit, added, with the right line and its 1-based
\* number, advances the right cursor by one and leaves the left cursor.
C21_FoundInLeftAdds ==
    [][(/\ pc = "loop"
        /\ leftIdx < Len(leftLines)
        /\ rightIdx < Len(rightLines)
        /\ leftLines[leftIdx + 1] # rightLines[rightIdx + 1]
        /\ InNextFour(leftLines, leftIdx, rightLines[rightIdx + 1])
        /\ ~InNextFour(rightLines, rightIdx, leftLines[leftIdx + 1])) =>
            /\ result' = Append(result, [type |-> "added",
                                         content |-> rightLines[rightIdx + 1],
                                         lineNumber |-> rightIdx + 1])
            /\ rightIdx' = rightIdx + 1
            /\ leftIdx' = leftIdx]_vars

\* after such an iteration: the last unit is the added right line, and at
\* the cursors before it the right line was among the next 4 left lines
\* while the left line was not among the next 4 right lines
C21_Witness ==
    /\ pc = "loop"
    /\ rightIdx >= 1
    /\ leftIdx < Len(leftLines)
    /\ Len(result) >= 1
    /\ result[Len(result)] = [type |-> "added",
                              content |-> rightLines[rightIdx],
                              lineNumber |-> rightIdx]
    /\ leftLines[leftIdx + 1] # rightLines[rightIdx]
    /\ InNextFour(leftLines, leftIdx, rightLines[rightIdx])
    /\ ~InNextFour(rightLines, rightIdx - 1, leftLines[leftIdx + 1])

\* C22: in an iteration with both cursors in range and different lines at
\* them, when the left line does not reappear within the next 4 right lines
\* and the right line does not reappear within the next 4 left lines, the
\* iteration appends exactly two units, modified-old with the left line and
\* its 1-based number and then modified-new with the right line and its
\* 1-based number, and advances both cursors by exactly one.
C22_NoMatchModifies ==
    [][(/\ pc = "loop"
        /\ leftIdx < Len(leftLines)
        /\ rightIdx < Len(rightLines)
        /\ leftLines[leftIdx + 1] # rightLines[rightIdx + 1]
        /\ ~InNextFour(rightLines, rightIdx, leftLines[leftIdx + 1])
        /\ ~InNextFour(leftLines, leftIdx, rightLines[rightIdx + 1])) =>
            /\ result' = result \o
                   <<[type |-> "modified-old",
                      content |-> leftLines[leftIdx + 1],
                      lineNumber |-> leftIdx + 1],
                     [type |-> "modified-new",
                      content |-> rightLines[rightIdx + 1],
                      lineNumber |-> rightIdx + 1]>>
            /\ leftIdx' = leftIdx + 1
            /\ rightIdx' = rightIdx + 1]_vars

\* after such an iteration that was not the first one, with lines left on
\* both sides: the last two units are the pair for the lines just passed
C22_Witness ==
    /\ pc = "loop"
    /\ leftIdx >= 2
    /\ rightIdx >= 2
    /\ leftIdx < Len(leftLines)
    /\ rightIdx < Len(rightLines)
    /\ Len(result) >= 3
    /\ result[Len(result) - 1] = [type |-> "modified-old",
                                  content |-> leftLines[leftIdx],
                                  lineNumber |-> leftIdx]
    /\ result[Len(result)] = [type |-> "modified-new",
                              content |-> rightLines[rightIdx],
                              lineNumber |-> rightIdx]
    /\ leftLines[leftIdx] # rightLines[rightIdx]
    /\ ~InNextFour(rightLines, rightIdx - 1, leftLines[leftIdx])
    /\ ~InNextFour(leftLines, leftIdx - 1, rightLines[rightIdx])

\* line occurs at the 0-based position idx + 5 or later, and not among the
\* next 4 lines after idx
OnlyBeyondFour(lines, idx, line) ==
    /\ \E i \in (idx + 5)..(Len(lines) - 1) : lines[i + 1] = line
    /\ ~InNextFour(lines, idx, line)

\* C23: in an iteration with both cursors in range and different lines at
\* them, the branch taken is decided by the positions cursor+1 .. cursor+4
\* of the other side only, cut off at the end of the sequence, and each side
\* is judged against the lines at the cursors of this iteration: the
\* iteration removes (left cursor alone advances) exactly when the left line
\* is among the next 4 right lines; it adds (right cursor alone advances)
\* exactly when it is not and the right line is among the next 4 left lines;
\* it emits the modified pair (both cursors advance) exactly when neither
\* is.  An occurrence at cursor+5 or later changes nothing.
C23_LookaheadWindow ==
    [][(/\ pc = "loop"
        /\ leftIdx < Len(leftLines)
        /\ rightIdx < Len(rightLines)
        /\ leftLines[leftIdx + 1] # rightLines[rightIdx + 1]) =>
            LET inRight == InNextFour(rightLines, rightIdx,
                                      leftLines[leftIdx + 1])
                inLeft == InNextFour(leftLines, leftIdx,
                                     rightLines[rightIdx + 1])
            IN  /\ (leftIdx' = leftIdx + 1 /\ rightIdx' = rightIdx)
                       <=> inRight
                /\ (leftIdx' = leftIdx /\ rightIdx' = rightIdx + 1)
                       <=> (~inRight /\ inLeft)
                /\ (leftIdx' = leftIdx + 1 /\ rightIdx' = rightIdx + 1)
                       <=> (~inRight /\ ~inLeft)
                /\ Len(result') = Len(result)
                       + (IF ~inRight /\ ~inLeft THEN 2 ELSE 1)]_vars

\* after an iteration that emitted the modified pair although the left line
\* occurred 5 positions after the right cursor and the right line occurred
\* 5 positions after the left cursor
C23_Witness ==
    /\ pc = "loop"
    /\ leftIdx >= 1
    /\ rightIdx >= 1
    /\ Len(result) >= 2
    /\ result[Len(result) - 1].type = "modified-old"
    /\ result[Len(result)].type = "modified-new"
    /\ result[Len(result) - 1].lineNumber = leftIdx
    /\ result[Len(result)].lineNumber = rightIdx
    /\ OnlyBeyondFour(rightLines, rightIdx - 1, leftLines[leftIdx])
    /\ OnlyBeyondFour(leftLines, leftIdx - 1, rightLines[rightIdx])

\* an iteration entered with one cursor at the end and the other not: it
\* appends the line at the other cursor, as added (left at the end) or as
\* removed (right at the end), with its 1-based number, and moves that
\* cursor alone by one
C24_ExhaustedStep ==
    /\ (/\ pc = "loop"
        /\ leftIdx >= Len(leftLines)
        /\ rightIdx < Len(rightLines)) =>
            /\ result' = Append(result, [type |-> "added",
                                         content |-> rightLines[rightIdx + 1],
                                         lineNumber |-> rightIdx + 1])
            /\ rightIdx' = rightIdx + 1
            /\ leftIdx' = leftIdx
    /\ (/\ pc = "loop"
        /\ rightIdx >= Len(rightLines)
        /\ leftIdx < Len(leftLines)) =>
            /\ result' = Append(result, [type |-> "removed",
                                         content |-> leftLines[leftIdx + 1],
                                         lineNumber |-> leftIdx + 1])
            /\ leftIdx' = leftIdx + 1
            /\ rightIdx' = rightIdx

\* the finished script of an input with one empty side
C24_EmptySide ==
    pc = "done" =>
        /\ leftLines = <<>> =>
               result = [i \in 1..Len(rightLines) |->
                            [type |-> "added", content |-> rightLines[i],
                             lineNumber |-> i]]
        /\ rightLines = <<>> =>
               result = [i \in 1..Len(leftLines) |->
                            [type |-> "removed", content |-> leftLines[i],
                             lineNumber |-> i]]

\* C24: once the left cursor is at the end, every iteration emits the next
\* right line as added and nothing else, until the right cursor is at the
\* end too; once the right cursor is at the end, every iteration emits the
\* next left line as removed and nothing else.  The script of an empty left
\* and a non-empty right is the right lines as added units, and the script
\* of a non-empty left and an empty right is the left lines as removed units.
C24_ExhaustedSideDrains == [](C24_EmptySide) /\ [][C24_ExhaustedStep]_vars

\* the left cursor reached the end after one unchanged line, and the two
\* remaining right lines followed as added units
C24_Witness ==
    /\ pc = "done"
    /\ leftLines = <<"a">>
    /\ rightLines = <<"a", "b", "c">>
    /\ result = <<[type |-> "unchanged", content |-> "a", lineNumber |-> 1],
                  [type |-> "added", content |-> "b", lineNumber |-> 2],
                  [type |-> "added", content |-> "c", lineNumber |-> 3]>>

\* the units that carry a number of the left sequence, and those that carry
\* a number of the right sequence, in script order
LeftNumbered(units) ==
    SelectSeq(units, LAMBDA u : u.type \in {"unchanged", "removed",
                                            "modified-old"})
RightNumbered(units) ==
    SelectSeq(units, LAMBDA u : u.type \in {"added", "modified-new"})
\* the units that stand for a right line, the unchanged ones included
RightUnits(units) == SelectSeq(units, LAMBDA u : u.type \in RightTypes)

StrictlyIncreasing(units) ==
    \A i, j \in DOMAIN units : i < j => units[i].lineNumber < units[j].lineNumber

\* C25: at every point of the run, the k-th unit standing for a left line
\* (unchanged, removed, modified-old) carries the number k and the content of
\* left line k; the k-th unit standing for a right line carries, when it is
\* added or modified-new, the number k and the content of right line k, and
\* when it is unchanged the content of right line k; and the numbers carried
\* by the left-numbered units, and those carried by the right-numbered
\* units, strictly increase along the script.
C25_LineNumbers ==
    LET leftU == LeftNumbered(result)
        rightU == RightUnits(result)
    IN  /\ Len(leftU) = leftIdx
        /\ Len(rightU) = rightIdx
        /\ \A k \in DOMAIN leftU :
               leftU[k].lineNumber = k /\ leftU[k].content = leftLines[k]
        /\ \A k \in DOMAIN rightU :
               /\ rightU[k].content = rightLines[k]
               /\ rightU[k].type # "unchanged" => rightU[k].lineNumber = k
        /\ StrictlyIncreasing(leftU)
        /\ StrictlyIncreasing(RightNumbered(result))

\* a finished script with an unchanged unit whose left number differs from
\* the position of its line on the right, after added and removed units
C25_Witness ==
    /\ pc = "done"
    /\ \E i \in DOMAIN result :
           /\ result[i].type = "unchanged"
           /\ result[i].lineNumber # Len(RightUnits(SubSeq(result, 1, i)))
    /\ {"added", "removed", "modified-old", "modified-new"}
           \subseteq TypesIn(result)

(***************************************************************************)
(* Properties of the workspace, checked under Spec                         *)
(***************************************************************************)
Count(units, type) == Cardinality({i \in DOMAIN units : units[i].type = type})

\* C8: in every reachable state the stats are the counts of the current diff
\* result: added = #added units, removed = #removed units, modified =
\* #modified-old units (modified-new units are not counted), and all three
\* are 0 when there is no diff result.
C8_StatsAreTheFold ==
    IF diffResult = Null
    THEN Stats(diffResult) = [added |-> 0, removed |-> 0, modified |-> 0]
    ELSE /\ Stats(diffResult).added = Count(diffResult.v, "added")
         /\ Stats(diffResult).removed = Count(diffResult.v, "removed")
         /\ Stats(diffResult).modified = Count(diffResult.v, "modified-old")

C8_Witness ==
    /\ diffResult # Null
    /\ Stats(diffResult).added >= 1
    /\ Stats(diffResult).removed >= 1
    /\ Stats(diffResult).modified >= 2
    /\ Count(diffResult.v, "unchanged") >= 1

\* C9: a compare with a primary or secondary input that is empty or white
\* space only ends with the empty-input error of the content type, not with
\* a parse error, and with no result: diff result null, semantic delta
\* undefined, both parsed values null.
C9_EmptyInputFails ==
    (lastOp = "compareDiff" /\ (IsBlank(primaryInput) \/ IsBlank(secondaryInput))) =>
        /\ error = IF contentType = "markdown"
                   THEN "Please enter markdown in both panels to compare"
                   ELSE "Please enter JSON in both panels to compare"
        /\ error # ""
        /\ diffResult = Null
        /\ semanticDiff = Undefined
        /\ leftParsed = Null
        /\ rightParsed = Null

C9_Witness ==
    /\ lastOp = "compareDiff"
    /\ contentType = "markdown"
    /\ ~IsBlank(primaryInput)
    /\ secondaryInput # ""
    /\ IsBlank(secondaryInput)
    /\ error # ""

\* C10: in JSON mode a compare of two non-blank inputs of which one does not
\* parse ends with 'Invalid JSON: ' followed by the parser's message for the
\* first input that fails, and with no partial result, also when only the
\* right input fails.
C10_ParseErrorNoPartialResult ==
    (/\ lastOp = "compareDiff"
     /\ contentType = "json"
     /\ ~IsBlank(primaryInput)
     /\ ~IsBlank(secondaryInput)
     /\ (~JSONParse(primaryInput).ok \/ ~JSONParse(secondaryInput).ok)) =>
        /\ error = "Invalid JSON: " \o
                      (IF ~JSONParse(primaryInput).ok
                       THEN JSONParse(primaryInput).message
                       ELSE JSONParse(secondaryInput).message)
        /\ diffResult = Null
        /\ semanticDiff = Undefined
        /\ leftParsed = Null
        /\ rightParsed = Null

C10_Witness ==
    /\ lastOp = "compareDiff"
    /\ contentType = "json"
    /\ JSONParse(primaryInput).ok
    /\ ~IsBlank(secondaryInput)
    /\ ~JSONParse(secondaryInput).ok
    /\ error = "Invalid JSON: Unexpected token i in JSON at position 1"

\* C11: a compare that fails (empty input or JSON parse error) while a diff
\* result of an earlier successful compare is held leaves the diff result,
\* the semantic delta and both parsed values as they were.
C11_FailedCompareKeepsResults ==
    [][(/\ diffResult # Null
        /\ lastOp' = "compareDiff"
        /\ error' # "") =>
            /\ diffResult' = diffResult
            /\ semanticDiff' = semanticDiff
            /\ leftParsed' = leftParsed
            /\ rightParsed' = rightParsed]_vars

\* C12: in every reachable state whose content type is markdown the semantic
\* delta is undefined; a successful markdown compare holds the two raw texts
\* as its parsed values (nothing was parsed) and no delta, also when the two
\* texts are JSON texts of different values.
C12_MarkdownHasNoDelta ==
    /\ contentType = "markdown" => semanticDiff = Undefined
    /\ (contentType = "markdown" /\ lastOp = "compareDiff" /\ error = "") =>
          /\ leftParsed = Str(primaryInput)
          /\ rightParsed = Str(secondaryInput)
          /\ diffResult # Null

C12_Witness ==
    /\ contentType = "markdown"
    /\ lastOp = "compareDiff"
    /\ diffResult # Null
    /\ JSONParse(primaryInput).ok
    /\ JSONParse(secondaryInput).ok
    /\ Diff(JSONParse(primaryInput).value, JSONParse(secondaryInput).value) # Undefined
    /\ semanticDiff = Undefined

\* C27: whenever the split view renders, row i of the original panel is
\* highlighted exactly when the i-th left unit of the diff result (an
\* unchanged, removed or modified-old unit) is removed or modified-old, and
\* row j of the modified panel is highlighted exactly when the j-th right
\* unit (unchanged, added or modified-new) is added or modified-new.
C27_SplitHighlightsByPosition ==
    (diffResult # Null /\ renderSplitView # Null) =>
        LET leftU == LeftNumbered(diffResult.v)
            rightU == RightUnits(diffResult.v)
            original == renderSplitView.original
            modified == renderSplitView.modified
        IN  /\ Len(original) = Len(leftU)
            /\ Len(modified) = Len(rightU)
            /\ \A i \in DOMAIN original :
                   original[i].highlighted
                       <=> leftU[i].type \in {"removed", "modified-old"}
            /\ \A j \in DOMAIN modified :
                   modified[j].highlighted
                       <=> rightU[j].type \in {"added", "modified-new"}

\* C28: whenever the workspace is in beautify mode on JSON content and the
\* primary input parses as JSON, the displayed error is empty.
C28_NoErrorOnValidBeautify ==
    (/\ currentMode = "beautify"
     /\ contentType = "json"
     /\ JSONParse(primaryInput).ok) =>
        displayedError = ""

(***************************************************************************)
(* Properties of the compare view, checked under SpecCompare               *)
(***************************************************************************)
\* the two-space, insertion-order serialization of the value of a JSON text
TwoSpaceLines(text) ==
    SplitLines(JSONStringify(JSONParse(text).value, IndentNumber(2)))

\* C13: after a successful JSON compare, whichever beautify preset is
\* selected, the edit script is the alignment of the two-space serializations
\* of the two parsed values with their keys in parsed order, and the stats
\* and the semantic delta are those of these values: the result is the same
\* under every preset.
C13_PresetIndependent ==
    (lastOp = "compareDiff" /\ contentType = "json" /\ error = "") =>
        /\ diffResult = Arr(computeLineDiff(TwoSpaceLines(primaryInput),
                                            TwoSpaceLines(secondaryInput)))
        /\ semanticDiff = Diff(JSONParse(primaryInput).value,
                               JSONParse(secondaryInput).value)
        /\ leftParsed = JSONParse(primaryInput).value
        /\ rightParsed = JSONParse(secondaryInput).value

C13_Witness ==
    /\ lastOp = "compareDiff"
    /\ contentType = "json"
    /\ error = ""
    /\ selectedPreset = "sortedExpanded"
    /\ primaryInput = "{\"b\":[1],\"a\":2}"
    /\ secondaryInput = "{\"a\":2,\"b\":[1]}"
    /\ Stats(diffResult).added + Stats(diffResult).removed
           + Stats(diffResult).modified > 0

\* C14: when the diff card is shown in annotated view mode and no annotated
\* HTML is available (formatHtml threw, the left value is falsy or there is
\* no semantic delta), the card shows the unified rendering of the current
\* diff result, one rendered row per unit, and the error is empty.
C14_AnnotatedFallsBack ==
    (/\ diffResult # Null
     /\ isCompareMode
     /\ viewMode = "annotated"
     /\ (formatHtmlThrows \/ Falsy(leftParsed) \/ semanticDiff = Undefined)) =>
        /\ DiffCard # Null
        /\ DiffCard.view = "lines"
        /\ Len(DiffCard.rows) = Len(diffResult.v)
        /\ \A i \in DOMAIN diffResult.v :
              /\ DiffCard.rows[i].content = diffResult.v[i].content
              /\ DiffCard.rows[i].lineNumber = diffResult.v[i].lineNumber
        /\ error = ""

C14_Witness ==
    /\ diffResult # Null
    /\ isCompareMode
    /\ viewMode = "annotated"
    /\ formatHtmlThrows
    /\ ~Falsy(leftParsed)
    /\ semanticDiff # Undefined
    /\ DiffCard.view = "lines"
    /\ Len(DiffCard.rows) > 1

\* structural equality of two JSON values: equal primitives, arrays equal
\* element by element, objects with the same keys and structurally equal
\* values under each key, in whatever key order
RECURSIVE StructurallyEqual(_, _)
StructurallyEqual(a, b) ==
    IF a.t # b.t THEN FALSE
    ELSE IF a.t = "arr"
         THEN /\ Len(a.v) = Len(b.v)
              /\ \A i \in DOMAIN a.v : StructurallyEqual(a.v[i], b.v[i])
    ELSE IF a.t = "obj"
         THEN /\ {a.v[i].k : i \in DOMAIN a.v} = {b.v[i].k : i \in DOMAIN b.v}
              /\ \A i \in DOMAIN a.v :
                    StructurallyEqual(a.v[i].v, PropValue(b.v, a.v[i].k))
    ELSE a = b

\* C19: the object hash of the two values of a successful JSON compare is
\* the same whenever the two values are structurally equal, also when they
\* are objects holding the same key/value pairs in a different key order.
C19_EqualValuesHashEqual ==
    (/\ lastOp = "compareDiff"
     /\ contentType = "json"
     /\ error = ""
     /\ StructurallyEqual(leftParsed, rightParsed)) =>
        objectHash(leftParsed) = objectHash(rightParsed)

\* C26: while the result of a JSON comparison is held, 'No changes detected'
\* (hasChanges false: no semantic delta) is the verdict only when every unit
\* of the diff result is unchanged.
C26_VerdictAgreesWithScript ==
    (/\ contentType = "json"
     /\ diffResult # Null
     /\ ~hasChanges) =>
        \A i \in DOMAIN diffResult.v : diffResult.v[i].type = "unchanged"

\* C30: while the result of a successful comparison is held, the split view
\* renders both documents, one row per line of each, and when there is a
\* semantic delta and formatHtml does not throw the annotated HTML is
\* produced.
C30_ViewsRenderForEveryValue ==
    (diffResult # Null /\ error = "") =>
        /\ renderSplitView # Null
        /\ Len(renderSplitView.original) = Len(SplitLinesOf(leftParsed))
        /\ Len(renderSplitView.modified) = Len(SplitLinesOf(rightParsed))
        /\ (semanticDiff # Undefined /\ ~formatHtmlThrows) =>
               renderAnnotatedHtml # Null

(***************************************************************************)
(* Properties of the beautify panel, checked under SpecBeautify            *)
(***************************************************************************)
\* val with the properties of every object, at every depth, listed in
\* ascending code-unit order of their keys; arrays keep their element order
RECURSIVE LexSorted(_)
LexSortedProps(props, keys) ==
    [i \in DOMAIN keys |-> Prop(keys[i], LexSorted(PropValue(props, keys[i])))]
LexSorted(val) ==
    IF val.t \notin {"arr", "obj"} THEN val
    ELSE IF val.t = "arr"
         THEN Arr([i \in DOMAIN val.v |-> LexSorted(val.v[i])])
    ELSE Obj(LexSortedProps(val.v, SortStrings(ObjectKeys(val.v))))

\* a sortKeys preset is selected and the beautified primary input parses
SortingApplies ==
    /\ currentMode = "beautify"
    /\ contentType = "json"
    /\ presets[selectedPreset].sortKeys
    /\ JSONParse(primaryInput).ok

\* C15: with a sortKeys preset the beautified output is the serialization of
\* the parsed value with the keys of every object, at every depth and inside
\* arrays, in ascending lexicographic code-point order (digit-string keys
\* included), array order and other values unchanged.
C15_SortedOutputLexicographic ==
    SortingApplies =>
        beautifiedResult.output =
            formatJson(LexSorted(JSONParse(primaryInput).value),
                       presets[selectedPreset].indent)

\* C16: sortObjectKeys applied twice serializes to the same text as applied
\* once, and beautifying the beautified output again under the same sortKeys
\* preset gives the same output.
C16_SortIdempotent ==
    SortingApplies =>
        /\ JSONStringify(sortObjectKeys(sortObjectKeys(
                             JSONParse(primaryInput).value)),
                         presets[selectedPreset].indent)
             = JSONStringify(sortObjectKeys(JSONParse(primaryInput).value),
                             presets[selectedPreset].indent)
        /\ BeautifyJson(JSONParse(beautifiedResult.output),
                        presets[selectedPreset])
             = beautifiedResult

C16_Witness ==
    /\ SortingApplies
    /\ JSONParse(primaryInput).value.t = "obj"
    /\ Len(JSONParse(primaryInput).value.v) = 2
    /\ JSONParse(primaryInput).value.v[1].k = "n"
    /\ sortObjectKeys(JSONParse(primaryInput).value) # JSONParse(primaryInput).value
    /\ Keys(JSONParse(primaryInput).value.v[1].v.v) = {"b", "a", "10"}
    /\ beautifiedResult.output # ""

\* markdown is being beautified
MarkdownBeautified == currentMode = "beautify" /\ contentType = "markdown"

\* the line starts with n markers, 1 to 6, followed by heading text
IsHeadingLine(line, n) ==
    /\ n >= 1
    /\ n <= 6
    /\ Trim(SubSeq(line, n + 1, Len(line))) # ""

\* exactly one space between the n markers and the heading text
OneSpaceAfterMarkers(line, n) ==
    /\ Char(line, n + 1) = " "
    /\ Char(line, n + 2) \notin WhiteSpace

\* C17: with normalizeHeadings, every line of the formatted markdown that
\* starts with 1 to 6 "#" followed by heading text has exactly one space
\* between the markers and the text, whether the input line had no space or
\* several spaces there.
C17_HeadingsHaveOneSpace ==
    (MarkdownBeautified
       /\ markdownPresets[selectedMarkdownPreset].normalizeHeadings) =>
        \A i \in DOMAIN SplitLines(beautifiedResult.output) :
            IsHeadingLine(SplitLines(beautifiedResult.output)[i],
                          LeadingCount(SplitLines(beautifiedResult.output)[i],
                                       {"#"}))
                => OneSpaceAfterMarkers(
                       SplitLines(beautifiedResult.output)[i],
                       LeadingCount(SplitLines(beautifiedResult.output)[i],
                                    {"#"}))

\* C18: with ensureNewlineAtEnd, under every markdown preset the formatted
\* markdown ends with a newline and the character before it, if any, is not
\* a newline.
C18_ExactlyOneFinalNewline ==
    (MarkdownBeautified
       /\ markdownPresets[selectedMarkdownPreset].ensureNewlineAtEnd) =>
        /\ EndsWithNewline(beautifiedResult.output)
        /\ ~EndsWithNewline(SubSeq(beautifiedResult.output, 1,
                                   Len(beautifiedResult.output) - 1))

\* C29: under every markdown preset, formatting the formatted markdown once
\* more with the same preset returns it unchanged.
C29_FormatMarkdownIdempotent ==
    MarkdownBeautified =>
        formatMarkdown(beautifiedResult.output,
                       markdownPresets[selectedMarkdownPreset])
            = beautifiedResult.output

====
